---------------------------- MODULE Spec2Model ----------------------------
(***************************************************************************)
(* Verification model of the Ichimoku signal bot:                          *)
(*   core/candle_buffer.py   CandleBuffer  (the rolling window)            *)
(*   core/indicator.py       IchimokuIndicator                             *)
(*   core/signal_detector.py SignalDetector                                *)
(*   backtest/engine.py      BacktestEngine.run  (historical replay)       *)
(*   bot.py                  process_candle      (live tick)               *)
(*                                                                         *)
(* The specifications share the operators that model the code:             *)
(*   Spec            one CandleBuffer object driven by arbitrary calls     *)
(*   RedeliverySpec  one CandleBuffer fed bars quoted at two prices        *)
(*   DriverSpec      a replay and a live pipeline run over one input       *)
(*   RerunSpec       run() called twice with the same arguments            *)
(*   UptrendSpec     the replay of the rising bars of the engine tests     *)
(*   IndicatorSpec   one IchimokuIndicator object given arbitrary frames   *)
(*   DetectorSpec    one SignalDetector object given a series of snapshots *)
(*   ConfigSpec      the two pipelines under non-default configurations    *)
(*   TickSpec        live ticks that are out of step with the feed         *)
(*   MultiSeriesSpec one SignalDetector shared by several series           *)
(*   AnyOrderSpec    one SignalDetector called with times in any order     *)
(* Each leaves the variables of the others at their initial values.        *)
(*                                                                         *)
(* A candle frame (pandas DataFrame) is a sequence of rows; a row is a     *)
(* record [time, open, high, low, close].  Prices are natural numbers and  *)
(* float NaN is the sentinel NaN.                                          *)
(***************************************************************************)
EXTENDS Integers, Sequences, FiniteSets, TLC

\* ------------------------------------------------------------------------
\* Bounds of the model
\* ------------------------------------------------------------------------

\* timestamps offered to seed/append are 1..MaxTime
MaxTime == 2

\* largest max_size / min_candles passed to the constructor
MaxCap == 2

\* longest frame passed to seed/append
MaxBatch == 2

\* float("nan")
NaN == -1

\* prices a row may carry in the window specification
Prices == {1}

\* ------------------------------------------------------------------------
\* State
\* ------------------------------------------------------------------------

VARIABLES
    obj,          \* "none" before CandleBuffer(...) returned, "built" after
    max_size,     \* CandleBuffer._max_size
    min_candles,  \* CandleBuffer._min
    seeded,       \* CandleBuffer._data is not None
    data,         \* CandleBuffer._data (rows in positional order); <<>> while None
    op,           \* the last call made on the object
    arg,          \* the frame passed to the last seed/append call
    prev,         \* _data as it was when the last call started
    raised,       \* the exception the last call raised, "none" if it returned
    candles,      \* the historical frame given to run() and served by the live feed
    cfg,          \* BacktestConfig: ichimoku, detector, warmup_candles, buffer_size
    enabled_signals,  \* the enabled_signals argument of run()
    bt,           \* BacktestEngine.run: its position, buffer, detector and result
    live,         \* the live bot: its feed position, buffer, detector and notifier
    ichi,         \* one IchimokuIndicator object and its last call
    det           \* one SignalDetector object and its last call

bufvars == <<obj, max_size, min_candles, seeded, data, op, arg, prev, raised>>

drvvars == <<candles, cfg, enabled_signals, bt, live>>

cmpvars == <<ichi, det>>

vars == <<obj, max_size, min_candles, seeded, data, op, arg, prev, raised,
          candles, cfg, enabled_signals, bt, live, ichi, det>>

\* ------------------------------------------------------------------------
\* Frames
\* ------------------------------------------------------------------------

Row(t, x) == [time |-> t, open |-> x, high |-> x, low |-> x, close |-> x]

\* rows the callers of the window specification can pass: any timestamp, any
\* price, and a row with a missing (NaN) close
InputRows == { Row(t, x) : t \in 1..MaxTime, x \in Prices }
                \cup { [Row(1, 1) EXCEPT !.close = NaN] }

SeqsUpTo(S, n) == UNION { [1..k -> S] : k \in 0..n }

InputFrames == SeqsUpTo(InputRows, MaxBatch)

HasNaNField(r) == r.open = NaN \/ r.high = NaN \/ r.low = NaN \/ r.close = NaN

\* DataFrame.dropna(): the rows without a NaN field, order kept
RECURSIVE DropNa(_)
DropNa(df) ==
    IF df = <<>> THEN <<>>
    ELSE IF HasNaNField(Head(df)) THEN DropNa(Tail(df))
         ELSE <<Head(df)>> \o DropNa(Tail(df))

\* one insertion step of the sort: r goes after every row whose time is <= its own
RECURSIVE InsertByTime(_, _)
InsertByTime(r, sorted) ==
    IF sorted = <<>> THEN <<r>>
    ELSE IF Head(sorted).time <= r.time
         THEN <<Head(sorted)>> \o InsertByTime(r, Tail(sorted))
         ELSE <<r>> \o sorted

\* DataFrame.sort_index(): ascending by time, equal times keep their order
RECURSIVE SortIndex(_)
SortIndex(df) ==
    IF df = <<>> THEN <<>>
    ELSE InsertByTime(df[Len(df)], SortIndex(SubSeq(df, 1, Len(df) - 1)))

Min(a, b) == IF a <= b THEN a ELSE b

\* DataFrame.tail(n) for n >= 0: the last n rows by position
TailN(df, n) ==
    IF Len(df) <= n THEN df ELSE SubSeq(df, Len(df) - n + 1, Len(df))

\* the index (timestamps) of a frame
IndexOf(df) == { df[k].time : k \in 1..Len(df) }

\* new[~new.index.isin(existing_idx)]
RECURSIVE NotIn(_, _)
NotIn(df, idx) ==
    IF df = <<>> THEN <<>>
    ELSE IF Head(df).time \in idx THEN NotIn(Tail(df), idx)
         ELSE <<Head(df)>> \o NotIn(Tail(df), idx)

\* CandleBuffer._prepare on a well-formed frame: dropna, then sort_index
Prepare(df) == SortIndex(DropNa(df))

\* the value seed() assigns to _data
SeedData(df, cap) == TailN(Prepare(df), cap)

\* the rows append() accepts: prepared, minus the timestamps already stored
Accepted(cur, df) == NotIn(Prepare(df), IndexOf(cur))

\* append() without the trailing .tail(max_size)
AppendData_NoTrim(cur, df, cap) ==
    IF Accepted(cur, df) = <<>> THEN cur
    ELSE cur \o Accepted(cur, df)

\* append() that keeps only the new rows: new.tail(max_size) without the concat
AppendData_Replace(cur, df, cap) ==
    IF Accepted(cur, df) = <<>> THEN cur
    ELSE TailN(Accepted(cur, df), cap)

\* an append() that lets a re-delivered row overwrite the stored one
AppendData_Upsert(cur, df, cap) ==
    IF Prepare(df) = <<>> THEN cur
    ELSE TailN(NotIn(cur, IndexOf(Prepare(df))) \o Prepare(df), cap)

\* the value of _data after append(): unchanged when nothing is accepted,
\* otherwise concat([_data, new]).tail(max_size)
AppendData(cur, df, cap) ==
    IF Accepted(cur, df) = <<>> THEN cur
    ELSE TailN(cur \o Accepted(cur, df), cap)

\* CandleBuffer.is_ready / size / latest_time; None is the timestamp 0
IsReady(sd, d, mn) == IF ~sd THEN FALSE ELSE Len(d) >= mn

Size(sd, d) == IF ~sd THEN 0 ELSE Len(d)

NoTime == 0

\* latest_time reading index[0] instead of index[-1]
LatestTime_First(sd, d) == IF ~sd \/ d = <<>> THEN NoTime ELSE d[1].time

LatestTime(sd, d) == IF ~sd \/ d = <<>> THEN NoTime ELSE d[Len(d)].time

is_ready == IsReady(seeded, data, min_candles)

size == Size(seeded, data)

latest_time == LatestTime(seeded, data)

\* ------------------------------------------------------------------------
\* The window specification: one CandleBuffer and its callers
\* ------------------------------------------------------------------------

\* no CandleBuffer constructed yet
BufferInit ==
    /\ obj = "none"
    /\ max_size = 0
    /\ min_candles = 0
    /\ seeded = FALSE
    /\ data = <<>>
    /\ op = "none"
    /\ arg = <<>>
    /\ prev = <<>>
    /\ raised = "none"

\* a pipeline that has not started: no buffer, an empty cooldown registry,
\* nothing emitted
Idle ==
    [ pc |-> "idle", i |-> 0, min |-> 0, seeded |-> FALSE, data |-> <<>>,
      last |-> <<>>, signals |-> <<>>, evaluated |-> FALSE, raised |-> "none",
      runs |-> 0, first |-> <<>>, caught |-> "none",
      ticks |-> 0, added |-> 0, checks |-> 0, at |-> 0, ind |-> <<>>,
      out |-> <<>> ]

\* no replay and no live bot
DriverIdle ==
    /\ candles = <<>>
    /\ cfg = <<>>
    /\ enabled_signals = {}
    /\ bt = Idle
    /\ live = Idle

\* no IchimokuIndicator constructed yet
IchiIdle ==
    [ obj |-> "none", cfg |-> <<>>, op |-> "none", df |-> <<>>,
      frame |-> <<>>, values |-> <<>>, raised |-> "none" ]

\* no SignalDetector constructed yet
DetIdle ==
    [ obj |-> "none", cfg |-> <<>>, given |-> {}, enabled |-> {},
      last |-> <<>>, dropped |-> <<>>, op |-> "none", before |-> <<>>, pair |-> "", timeframe |-> "",
      ind |-> <<>>, time |-> 0, out |-> <<>> ]

\* no stand-alone indicator and no stand-alone detector
ComponentsIdle ==
    /\ ichi = IchiIdle
    /\ det = DetIdle

Init ==
    /\ BufferInit
    /\ DriverIdle
    /\ ComponentsIdle

\* a constructor whose check is max_size <= min_candles
CandleBuffer_init_Strict(ms, mc) ==
    /\ obj = "none"
    /\ op' = "construct"
    /\ arg' = <<>>
    /\ prev' = data
    /\ max_size' = ms
    /\ min_candles' = mc
    /\ UNCHANGED drvvars
    /\ UNCHANGED cmpvars
    /\ IF ms <= mc
       THEN /\ raised' = "ValueError"
            /\ UNCHANGED <<obj, seeded, data>>
       ELSE /\ raised' = "none"
            /\ obj' = "built"
            /\ seeded' = FALSE
            /\ data' = <<>>

\* CandleBuffer(max_size=ms, min_candles=mc)
CandleBuffer_init(ms, mc) ==
    /\ obj = "none"
    /\ op' = "construct"
    /\ arg' = <<>>
    /\ prev' = data
    /\ max_size' = ms
    /\ min_candles' = mc
    /\ UNCHANGED drvvars
    /\ UNCHANGED cmpvars
    /\ IF ms < mc
       THEN /\ raised' = "ValueError"
            /\ UNCHANGED <<obj, seeded, data>>
       ELSE /\ raised' = "none"
            /\ obj' = "built"
            /\ seeded' = FALSE
            /\ data' = <<>>

\* buf.seed(df)
CandleBuffer_seed(df) ==
    /\ obj = "built"
    /\ op' = "seed"
    /\ arg' = df
    /\ prev' = data
    /\ raised' = "none"
    /\ seeded' = TRUE
    /\ data' = SeedData(df, max_size)
    /\ UNCHANGED <<obj, max_size, min_candles>>
    /\ UNCHANGED drvvars
    /\ UNCHANGED cmpvars

\* an append() without the "not seeded" check: None is taken as an empty frame
CandleBuffer_append_NoSeedCheck(df) ==
    /\ obj = "built"
    /\ op' = "append"
    /\ arg' = df
    /\ prev' = data
    /\ raised' = "none"
    /\ seeded' = TRUE
    /\ data' = AppendData(data, df, max_size)
    /\ UNCHANGED <<obj, max_size, min_candles>>
    /\ UNCHANGED drvvars
    /\ UNCHANGED cmpvars

\* buf.append(df)
CandleBuffer_append(df) ==
    /\ obj = "built"
    /\ op' = "append"
    /\ arg' = df
    /\ prev' = data
    /\ IF ~seeded
       THEN /\ raised' = "RuntimeError"
            /\ UNCHANGED <<seeded, data>>
       ELSE /\ raised' = "none"
            /\ data' = AppendData(data, df, max_size)
            /\ UNCHANGED seeded
    /\ UNCHANGED <<obj, max_size, min_candles>>
    /\ UNCHANGED drvvars
    /\ UNCHANGED cmpvars

\* buf.data
CandleBuffer_data ==
    /\ obj = "built"
    /\ op' = "data"
    /\ arg' = <<>>
    /\ prev' = data
    /\ raised' = IF ~seeded THEN "RuntimeError" ELSE "none"
    /\ UNCHANGED <<obj, max_size, min_candles, seeded, data>>
    /\ UNCHANGED drvvars
    /\ UNCHANGED cmpvars

Next ==
    \/ \E ms \in 0..MaxCap, mc \in 0..MaxCap : CandleBuffer_init(ms, mc)
    \/ \E df \in InputFrames : CandleBuffer_seed(df)
    \/ \E df \in InputFrames : CandleBuffer_append(df)
    \/ CandleBuffer_data

Spec == Init /\ [][Next]_vars

\* ------------------------------------------------------------------------
\* The re-delivery specification: one CandleBuffer whose feed quotes every
\* timestamp at two prices, so that a bar can come again with other values.
\* ------------------------------------------------------------------------

\* the two prices a bar of one timestamp is quoted at
Quotes == {1, 2}

\* complete rows, every timestamp at either price
QuotedRows == { Row(t, x) : t \in 1..MaxTime, x \in Quotes }

\* the frames of the feed: empty, one row, or two rows in any order
QuotedFrames ==
    {<<>>} \cup { <<r>> : r \in QuotedRows }
           \cup { <<r, q>> : r \in QuotedRows, q \in QuotedRows }

RedeliveryNext ==
    \/ \E ms \in 1..MaxCap : CandleBuffer_init(ms, 1)
    \/ \E df \in QuotedFrames : CandleBuffer_seed(df)
    \/ \E df \in QuotedFrames : CandleBuffer_append(df)

RedeliverySpec == Init /\ [][RedeliveryNext]_vars


\* ------------------------------------------------------------------------
\* IchimokuIndicator (core/indicator.py)
\*
\* Indicator values are carried in quarter price units (price * Quarter), so
\* that the two divisions by 2 of the source give whole numbers.
\* ------------------------------------------------------------------------

Quarter == 4

SetMax(S) == CHOOSE x \in S : \A y \in S : y <= x

SetMin(S) == CHOOSE x \in S : \A y \in S : x <= y

\* a rolling maximum that needs one row more than `period`
RollingMaxHigh_OneMore(df, period, t) ==
    IF t <= period THEN NaN
    ELSE SetMax({ df[k].high : k \in (t - period + 1)..t })

\* df["high"].rolling(window=period).max() at position t (1-based): NaN
\* until `period` rows are available
RollingMaxHigh(df, period, t) ==
    IF t < period THEN NaN
    ELSE SetMax({ df[k].high : k \in (t - period + 1)..t })

\* df["low"].rolling(window=period).min() at position t
RollingMinLow(df, period, t) ==
    IF t < period THEN NaN
    ELSE SetMin({ df[k].low : k \in (t - period + 1)..t })

\* IchimokuIndicator._midpoint at position t: (high + low) / 2
Midpoint(df, period, t) ==
    LET high == RollingMaxHigh(df, period, t)
        low  == RollingMinLow(df, period, t)
    IN  IF high = NaN \/ low = NaN THEN NaN
        ELSE (Quarter \div 2) * (high + low)

\* tenkan + kijun without the division
SpanA_NoHalving(df, icfg, t) ==
    LET tenkan == Midpoint(df, icfg.tenkan_period, t)
        kijun  == Midpoint(df, icfg.kijun_period, t)
    IN  IF tenkan = NaN \/ kijun = NaN THEN NaN
        ELSE tenkan + kijun

\* ((tenkan + kijun) / 2) before the shift
SpanA(df, icfg, t) ==
    LET tenkan == Midpoint(df, icfg.tenkan_period, t)
        kijun  == Midpoint(df, icfg.kijun_period, t)
    IN  IF tenkan = NaN \/ kijun = NaN THEN NaN
        ELSE (tenkan + kijun) \div 2

\* a shift that blanks the same positions but leaves the values in place
Shifted_Unmoved(n, t, len) == IF (t - n) \in 1..len THEN t ELSE 0

\* Series.shift(n) at position t of a series of length len: the position the
\* value comes from (n positions earlier), 0 where that position does not
\* exist and the shifted series holds NaN
Shifted(n, t, len) == IF (t - n) \in 1..len THEN t - n ELSE 0

\* one row of the frame IchimokuIndicator.calculate returns
CalculateAt(df, icfg, t) ==
    LET ua == Shifted(icfg.displacement, t, Len(df))
        uc == Shifted(0 - icfg.chikou_shift, t, Len(df))
    IN  [ tenkan   |-> Midpoint(df, icfg.tenkan_period, t),
          kijun    |-> Midpoint(df, icfg.kijun_period, t),
          senkou_a |-> IF ua = 0 THEN NaN ELSE SpanA(df, icfg, ua),
          senkou_b |-> IF ua = 0 THEN NaN
                       ELSE Midpoint(df, icfg.senkou_b_period, ua),
          chikou   |-> IF uc = 0 THEN NaN ELSE Quarter * df[uc].close ]

\* IchimokuIndicator.calculate
Calculate(df, icfg) == [ t \in 1..Len(df) |-> CalculateAt(df, icfg, t) ]

\* Python max(a, b) / min(a, b) on floats: b replaces a only if b > a (b < a),
\* and every comparison with NaN is false
PyMax(a, b) == IF a # NaN /\ b # NaN /\ b > a THEN b ELSE a

PyMin(a, b) == IF a # NaN /\ b # NaN /\ b < a THEN b ELSE a

\* a _nan_dict that reports the two closes as 0.0
NanDict_ZeroClose ==
    [ tenkan |-> NaN, kijun |-> NaN, senkou_a |-> NaN, senkou_b |-> NaN,
      chikou |-> NaN, close |-> 0, cloud_top |-> NaN, cloud_bottom |-> NaN,
      prev_tenkan |-> NaN, prev_kijun |-> NaN, prev_senkou_a |-> NaN,
      prev_senkou_b |-> NaN, prev_chikou |-> NaN, prev_close |-> 0,
      prev_cloud_top |-> NaN, prev_cloud_bottom |-> NaN ]

\* IchimokuIndicator._nan_dict
NanDict ==
    [ tenkan |-> NaN, kijun |-> NaN, senkou_a |-> NaN, senkou_b |-> NaN,
      chikou |-> NaN, close |-> NaN, cloud_top |-> NaN, cloud_bottom |-> NaN,
      prev_tenkan |-> NaN, prev_kijun |-> NaN, prev_senkou_a |-> NaN,
      prev_senkou_b |-> NaN, prev_chikou |-> NaN, prev_close |-> NaN,
      prev_cloud_top |-> NaN, prev_cloud_bottom |-> NaN ]

\* IchimokuIndicator.latest_values
LatestValues(df, icfg) ==
    IF Len(df) < 2 THEN NanDict
    ELSE LET cur  == CalculateAt(df, icfg, Len(df))         \* ichi.iloc[-1]
             prv  == CalculateAt(df, icfg, Len(df) - 1)     \* ichi.iloc[-2]
         IN  [ tenkan            |-> cur.tenkan,
               kijun             |-> cur.kijun,
               senkou_a          |-> cur.senkou_a,
               senkou_b          |-> cur.senkou_b,
               chikou            |-> cur.chikou,
               close             |-> Quarter * df[Len(df)].close,
               cloud_top         |-> PyMax(cur.senkou_a, cur.senkou_b),
               cloud_bottom      |-> PyMin(cur.senkou_a, cur.senkou_b),
               prev_tenkan       |-> prv.tenkan,
               prev_kijun        |-> prv.kijun,
               prev_senkou_a     |-> prv.senkou_a,
               prev_senkou_b     |-> prv.senkou_b,
               prev_chikou       |-> prv.chikou,
               prev_close        |-> Quarter * df[Len(df) - 1].close,
               prev_cloud_top    |-> PyMax(prv.senkou_a, prv.senkou_b),
               prev_cloud_bottom |-> PyMin(prv.senkou_a, prv.senkou_b) ]

\* ------------------------------------------------------------------------
\* SignalDetector (core/signal_detector.py)
\* ------------------------------------------------------------------------

ALL_SIGNALS ==
    { "tk_cross_up", "tk_cross_down", "kumo_breakout_up", "kumo_breakout_down",
      "chikou_cross_up", "chikou_cross_down" }

\* float comparisons: false whenever an operand is NaN
Lt(a, b) == a # NaN /\ b # NaN /\ a < b

Le(a, b) == a # NaN /\ b # NaN /\ a <= b

\* a _has_nan that looks at every value but the two chikou values
HasNan_ButChikou(ind) ==
    \E k \in DOMAIN ind \ {"chikou", "prev_chikou"} : ind[k] = NaN

\* a _has_nan that never finds one
HasNan_Never(ind) == FALSE

\* SignalDetector._has_nan
HasNan(ind) == \E k \in DOMAIN ind : ind[k] = NaN

\* (False, {})
NotFired == [fired |-> FALSE, details |-> <<>>]

\* a tk cross up that ignores the cloud filter
TkCrossUp_NoFilter(ind, dcfg) ==
    IF ~(Le(ind.prev_tenkan, ind.prev_kijun) /\ Lt(ind.kijun, ind.tenkan))
    THEN NotFired
    ELSE [fired |-> TRUE,
          details |-> [tenkan |-> ind.tenkan, kijun |-> ind.kijun,
                       cloud_top |-> ind.cloud_top]]

\* the six rules; each returns (fired, details)
TkCrossUp(ind, dcfg) ==
    IF ~(Le(ind.prev_tenkan, ind.prev_kijun) /\ Lt(ind.kijun, ind.tenkan))
    THEN NotFired
    ELSE IF dcfg.cloud_filter /\ Lt(ind.close, ind.cloud_top) THEN NotFired
    ELSE [fired |-> TRUE,
          details |-> [tenkan |-> ind.tenkan, kijun |-> ind.kijun,
                       cloud_top |-> ind.cloud_top]]

\* a tk cross down that looks at the previous candle only
TkCrossDown_PrevOnly(ind, dcfg) ==
    IF ~Le(ind.prev_kijun, ind.prev_tenkan) THEN NotFired
    ELSE [fired |-> TRUE,
          details |-> [tenkan |-> ind.tenkan, kijun |-> ind.kijun,
                       cloud_bottom |-> ind.cloud_bottom]]

\* SignalDetector._tk_cross_down
TkCrossDown(ind, dcfg) ==
    IF ~(Le(ind.prev_kijun, ind.prev_tenkan) /\ Lt(ind.tenkan, ind.kijun))
    THEN NotFired
    ELSE IF dcfg.cloud_filter /\ Lt(ind.cloud_bottom, ind.close) THEN NotFired
    ELSE [fired |-> TRUE,
          details |-> [tenkan |-> ind.tenkan, kijun |-> ind.kijun,
                       cloud_bottom |-> ind.cloud_bottom]]

KumoBreakoutUp(ind, dcfg) ==
    IF Le(ind.prev_close, ind.prev_cloud_top) /\ Lt(ind.cloud_top, ind.close)
    THEN [fired |-> TRUE, details |-> [cloud_top |-> ind.cloud_top]]
    ELSE NotFired

\* a kumo breakout down that wants the previous close strictly above
KumoBreakoutDown_StrictBefore(ind, dcfg) ==
    IF Lt(ind.prev_cloud_bottom, ind.prev_close) /\ Lt(ind.close, ind.cloud_bottom)
    THEN [fired |-> TRUE, details |-> [cloud_bottom |-> ind.cloud_bottom]]
    ELSE NotFired

KumoBreakoutDown(ind, dcfg) ==
    IF Le(ind.prev_cloud_bottom, ind.prev_close) /\ Lt(ind.close, ind.cloud_bottom)
    THEN [fired |-> TRUE, details |-> [cloud_bottom |-> ind.cloud_bottom]]
    ELSE NotFired

ChikouCrossUp(ind, dcfg) ==
    IF Le(ind.prev_chikou, ind.prev_close) /\ Lt(ind.prev_close, ind.chikou)
    THEN [fired |-> TRUE,
          details |-> [chikou |-> ind.chikou, ref_close |-> ind.prev_close]]
    ELSE NotFired

ChikouCrossDown(ind, dcfg) ==
    IF Le(ind.prev_close, ind.prev_chikou) /\ Lt(ind.chikou, ind.prev_close)
    THEN [fired |-> TRUE,
          details |-> [chikou |-> ind.chikou, ref_close |-> ind.prev_close]]
    ELSE NotFired

\* a rules list that tries the chikou rules first
Rules_ChikouFirst ==
    << "chikou_cross_up", "chikou_cross_down", "tk_cross_up", "tk_cross_down",
       "kumo_breakout_up", "kumo_breakout_down" >>

\* the rules list of check(), in its order
Rules ==
    << "tk_cross_up", "tk_cross_down", "kumo_breakout_up", "kumo_breakout_down",
       "chikou_cross_up", "chikou_cross_down" >>

RuleFn(signal_type, ind, dcfg) ==
    CASE signal_type = "tk_cross_up"        -> TkCrossUp(ind, dcfg)
      [] signal_type = "tk_cross_down"      -> TkCrossDown(ind, dcfg)
      [] signal_type = "kumo_breakout_up"   -> KumoBreakoutUp(ind, dcfg)
      [] signal_type = "kumo_breakout_down" -> KumoBreakoutDown(ind, dcfg)
      [] signal_type = "chikou_cross_up"    -> ChikouCrossUp(ind, dcfg)
      [] signal_type = "chikou_cross_down"  -> ChikouCrossDown(ind, dcfg)

\* a cooldown that still holds when exactly cooldown_minutes have elapsed
OnCooldown_Inclusive(last, key, now, dcfg) ==
    IF key \notin DOMAIN last THEN FALSE
    ELSE (now - last[key]) <= dcfg.cooldown_minutes

\* a cooldown measured by the distance of the two times, whichever is later
OnCooldown_Distance(last, key, now, dcfg) ==
    IF key \notin DOMAIN last THEN FALSE
    ELSE (IF now >= last[key] THEN now - last[key] ELSE last[key] - now)
            < dcfg.cooldown_minutes

\* a cooldown kept per kind, whatever the pair and the timeframe
OnCooldown_PerKind(last, key, now, dcfg) ==
    \E k \in DOMAIN last :
        k[3] = key[3] /\ (now - last[k]) < dcfg.cooldown_minutes

\* SignalDetector._on_cooldown; the registry is a function on the keys recorded
OnCooldown(last, key, now, dcfg) ==
    IF key \notin DOMAIN last THEN FALSE
    ELSE (now - last[key]) < dcfg.cooldown_minutes

\* a _record_signal that stamps every entry of the registry with the time
RecordSignal_StampAll(last, key, now) ==
    [ k \in (DOMAIN last) \cup {key} |-> now ]

\* SignalDetector._record_signal
RecordSignal(last, key, now) ==
    [ k \in (DOMAIN last) \cup {key} |-> IF k = key THEN now ELSE last[k] ]

\* a direction that is BUY for every kind
Direction_AlwaysBuy(signal_type) == "BUY"

\* signal_type.endswith("_up")
Direction(signal_type) ==
    IF signal_type \in {"tk_cross_up", "kumo_breakout_up", "chikou_cross_up"}
    THEN "BUY" ELSE "SELL"

\* the for loop of check() from rule n on; st is [signals, last]
RECURSIVE CheckLoop(_, _, _, _, _, _, _, _)
CheckLoop(n, st, enabled, dcfg, pair, timeframe, ind, candle_time) ==
    IF n > Len(Rules) THEN st
    ELSE LET signal_type == Rules[n]
             res == RuleFn(signal_type, ind, dcfg)
             key == <<pair, timeframe, signal_type>>
             nxt == IF signal_type \notin enabled THEN st
                    ELSE IF ~res.fired THEN st
                    ELSE IF OnCooldown(st.last, key, candle_time, dcfg) THEN st
                    ELSE [ signals |-> Append(st.signals,
                                        [ pair        |-> pair,
                                          timeframe   |-> timeframe,
                                          signal_type |-> signal_type,
                                          direction   |-> Direction(signal_type),
                                          timestamp   |-> candle_time,
                                          price       |-> ind.close,
                                          details     |-> res.details ]),
                           last |-> RecordSignal(st.last, key, candle_time) ]
         IN  CheckLoop(n + 1, nxt, enabled, dcfg, pair, timeframe, ind, candle_time)

\* SignalDetector.check: the signals returned and the registry afterwards
Check(last, enabled, dcfg, pair, timeframe, ind, candle_time) ==
    IF HasNan(ind) THEN [signals |-> <<>>, last |-> last]
    ELSE CheckLoop(1, [signals |-> <<>>, last |-> last],
                   enabled, dcfg, pair, timeframe, ind, candle_time)

\* ------------------------------------------------------------------------
\* The drivers: BacktestEngine.run (backtest/engine.py) and the live bot
\* (bot.py), run over the same candles.
\*
\* bt and live are records:
\*   pc         "idle", then "loop" / "running", then "returned" or "raised"
\*   i          how many rows of candles the pipeline has consumed
\*   seeded     its CandleBuffer._data is not None
\*   data       its CandleBuffer._data
\*   last       its SignalDetector._last_signal_time
\*   signals    all_signals of run(); the signals handed to notifier.send
\*   evaluated  the last loop iteration / tick reached detector.check
\*   raised     the exception that ended it
\*   caught     the exception the pipeline caught and logged, if any
\*   min        its CandleBuffer._min
\*   ticks      how often process_candle was called
\*   added      how many rows the append of the last tick added
\*   checks     how often the live detector's check() was called
\*   at, ind    the candle_time and the indicators of its last check()
\*   out        `signals` of the last loop iteration / tick: what its check()
\*              returned, empty if it did not get there
\*
\* The source's default periods 9/26/52, displacement 26 and the derived
\* constants DEFAULT_MIN = 78 = 52 + 26 and max_size = 300 are scaled down
\* together: periods 1/2/2, displacement 1, DEFAULT_MIN = 2 + 1.
\* ------------------------------------------------------------------------

\* rows of the frame given to run()
NumBars == 6

\* CandleBuffer.DEFAULT_MIN (scaled: senkou_b_period + displacement)
DEFAULT_MIN == 3

\* CandleBuffer(max_size=300) of initialise() (scaled)
LIVE_MAX_SIZE == 5

\* fetch_latest(symbol, timeframe, count=3)
FETCH_COUNT == 3

PAIR == "EURUSD"

TIMEFRAME == "M1"

Max(a, b) == IF a >= b THEN a ELSE b

\* IchimokuConfig values: the scaled defaults, with and without a chikou
\* shift, and the defaults with a negative kijun_period, which the
\* dataclass takes as it takes any integer
IchimokuConfigs ==
    { [ tenkan_period |-> 1, kijun_period |-> 2, senkou_b_period |-> 2,
        displacement |-> 1, chikou_shift |-> cs ] : cs \in {0, 1} }
    \cup { [ tenkan_period |-> 1, kijun_period |-> -1, senkou_b_period |-> 2,
             displacement |-> 1, chikou_shift |-> 1 ] }

\* latest_values() raises ValueError: Series.rolling(window=period) of
\* _midpoint refuses a negative window
RollingRaises(icfg) ==
    icfg.tenkan_period < 0 \/ icfg.kijun_period < 0 \/ icfg.senkou_b_period < 0

\* DetectorConfig values
DetectorConfigs ==
    { [ cooldown_minutes |-> cd, cloud_filter |-> cf ] :
        cd \in {0, 2}, cf \in BOOLEAN }

\* BacktestConfig values; the configuration whose indicator raises comes
\* with one detector configuration, as its detector is never called
BacktestConfigs ==
    { c \in { [ ichimoku |-> ic, detector |-> dc, warmup_candles |-> w,
                buffer_size |-> b ] :
                ic \in IchimokuConfigs, dc \in DetectorConfigs,
                w \in {1, DEFAULT_MIN, NumBars - 1, NumBars},
                b \in {DEFAULT_MIN, LIVE_MAX_SIZE} } :
        RollingRaises(c.ichimoku) =>
            (c.detector.cooldown_minutes = 0 /\ ~c.detector.cloud_filter) }

\* enabled_signals of run(): None (all six) or a whitelist
EnabledChoices == { ALL_SIGNALS, {"tk_cross_up", "kumo_breakout_up"} }

\* time-ordered frames of complete rows, one row per minute
DriverFrames ==
    { [ k \in 1..NumBars |-> Row(k, c[k]) ] : c \in [1..NumBars -> {1, 2}] }

\* the whole frame instead of the slice
IlocTo_All(df, n) == df

\* candles.iloc[:n]
IlocTo(df, n) ==
    IF n >= 0 THEN SubSeq(df, 1, Min(n, Len(df)))
    ELSE SubSeq(df, 1, Max(Len(df) + n, 0))

\* a slice that starts at the first row whatever n is
IlocStart_First(df, n) == 0

\* the number of rows before candles.iloc[n:]
IlocStart(df, n) ==
    IF n >= 0 THEN Min(n, Len(df)) ELSE Max(Len(df) + n, 0)

DriverInit ==
    /\ BufferInit
    /\ candles \in DriverFrames
    /\ cfg \in BacktestConfigs
    /\ enabled_signals \in EnabledChoices
    /\ bt = Idle
    /\ live = Idle
    /\ ComponentsIdle

\* a length check that lets total = warmup through
NotEnoughCandles_Strict(total, warmup) == total < warmup

\* the guard of run(): total <= warmup
NotEnoughCandles(total, warmup) == total <= warmup

\* run() up to the loop: the length check, the fresh components, the seed
BacktestEngine_run_begin ==
    /\ bt.pc = "idle"
    /\ LET total  == Len(candles)
           warmup == cfg.warmup_candles
       IN  IF NotEnoughCandles(total, warmup)
           THEN bt' = [bt EXCEPT !.pc = "raised", !.raised = "ValueError"]
           ELSE IF cfg.buffer_size < DEFAULT_MIN
           THEN bt' = [bt EXCEPT !.pc = "raised", !.raised = "ValueError"]
           ELSE \* CandleBuffer(max_size=self.cfg.buffer_size): min_candles
                \* is left at its default
                bt' = [bt EXCEPT !.pc = "loop",
                                 !.min = DEFAULT_MIN,
                                 !.i = IlocStart(candles, warmup),
                                 !.seeded = TRUE,
                                 !.data = SeedData(IlocTo(candles, warmup),
                                                   cfg.buffer_size)]
    /\ UNCHANGED <<candles, cfg, enabled_signals, live>>
    /\ UNCHANGED bufvars
    /\ UNCHANGED cmpvars

\* one iteration of the loop of run()
BacktestEngine_run_step ==
    /\ bt.pc = "loop"
    /\ bt.i < Len(candles)
    /\ LET row == candles[bt.i + 1]
           ts  == row.time
           new_candle == << [ time |-> ts, open |-> row.open, high |-> row.high,
                              low |-> row.low, close |-> row.close ] >>
           d   == AppendData(bt.data, new_candle, cfg.buffer_size)
       IN  IF ~IsReady(TRUE, d, bt.min)
           THEN bt' = [bt EXCEPT !.i = @ + 1, !.data = d, !.evaluated = FALSE,
                                 !.out = <<>>]
           ELSE IF RollingRaises(cfg.ichimoku)
           THEN \* except Exception: logger.warning(...); continue
                bt' = [bt EXCEPT !.i = @ + 1, !.data = d, !.evaluated = FALSE,
                                 !.out = <<>>, !.caught = "ValueError"]
           ELSE LET ind_values == LatestValues(d, cfg.ichimoku)
                    res == Check(bt.last, enabled_signals, cfg.detector,
                                 PAIR, TIMEFRAME, ind_values, ts)
                IN  bt' = [bt EXCEPT !.i = @ + 1,
                                     !.data = d,
                                     !.evaluated = TRUE,
                                     !.out = res.signals,
                                     !.last = res.last,
                                     !.signals = @ \o res.signals]
    /\ UNCHANGED <<candles, cfg, enabled_signals, live>>
    /\ UNCHANGED bufvars
    /\ UNCHANGED cmpvars

\* run() returns all_signals
BacktestEngine_run_return ==
    /\ bt.pc = "loop"
    /\ bt.i = Len(candles)
    /\ bt' = [bt EXCEPT !.pc = "returned"]
    /\ UNCHANGED <<candles, cfg, enabled_signals, live>>
    /\ UNCHANGED bufvars
    /\ UNCHANGED cmpvars

\* initialise(): the live buffer, CandleBuffer(max_size=300) with min_candles
\* left at its default, seeded with the history the feed has so far (the
\* warm-up rows), and the live detector
initialise ==
    /\ live.pc = "idle"
    /\ live' = [live EXCEPT !.pc = "running",
                            !.min = DEFAULT_MIN,
                            !.i = IlocStart(candles, cfg.warmup_candles),
                            !.seeded = TRUE,
                            !.data = SeedData(IlocTo(candles, cfg.warmup_candles),
                                              LIVE_MAX_SIZE)]
    /\ UNCHANGED <<candles, cfg, enabled_signals, bt>>
    /\ UNCHANGED bufvars
    /\ UNCHANGED cmpvars

\* process_candle(symbol, timeframe): one tick, fired when `closed` rows of
\* candles have closed; fetch_latest returns the last FETCH_COUNT of them
process_candle_at(closed) ==
    /\ live.pc = "running"
    /\ LET new_candles == SubSeq(candles, Max(1, closed - FETCH_COUNT + 1), closed)
           d == AppendData(live.data, new_candles, LIVE_MAX_SIZE)
           tick == [live EXCEPT !.i = closed, !.ticks = @ + 1,
                                !.evaluated = FALSE, !.out = <<>>]
       IN  IF new_candles = <<>>
           THEN live' = [tick EXCEPT !.added = 0]
           ELSE LET appended == [tick EXCEPT !.data = d,
                                      !.added = Len(Accepted(live.data, new_candles))]
                IN  IF ~IsReady(TRUE, d, live.min)
                    THEN live' = appended
                    ELSE IF RollingRaises(cfg.ichimoku)
                    THEN \* except Exception: logger.exception(...), the tick returns
                         live' = [appended EXCEPT !.caught = "ValueError"]
                    ELSE LET ind == LatestValues(d, cfg.ichimoku)
                             candle_time == LatestTime(TRUE, d)
                             res == Check(live.last, ALL_SIGNALS, cfg.detector,
                                          PAIR, TIMEFRAME, ind, candle_time)
                         IN  live' = [appended EXCEPT !.evaluated = TRUE,
                                                      !.checks = @ + 1,
                                                      !.at = candle_time,
                                                      !.ind = ind,
                                                      !.out = res.signals,
                                                      !.last = res.last,
                                                      !.signals = @ \o res.signals]
    /\ UNCHANGED <<candles, cfg, enabled_signals, bt>>
    /\ UNCHANGED bufvars
    /\ UNCHANGED cmpvars

\* the tick the scheduler fires when the next row has closed
process_candle ==
    /\ live.i < Len(candles)
    /\ process_candle_at(live.i + 1)

DriverNext ==
    \/ BacktestEngine_run_begin
    \/ BacktestEngine_run_step
    \/ BacktestEngine_run_return
    \/ initialise
    \/ process_candle

DriverSpec == DriverInit /\ [][DriverNext]_vars

\* ------------------------------------------------------------------------
\* The configuration specification: the same replay and the same live
\* pipeline under configurations away from the defaults: a senkou_b_period
\* below and above the default one, and a warm-up of one, zero and minus
\* one.  BacktestConfig and IchimokuConfig are plain dataclasses and take
\* these values.
\* ------------------------------------------------------------------------

\* IchimokuConfig(senkou_b_period=...), the other fields at their defaults
OtherIchimokuConfigs ==
    { [ tenkan_period |-> 1, kijun_period |-> 2, senkou_b_period |-> sb,
        displacement |-> 1, chikou_shift |-> cs ] :
        sb \in {1, 3}, cs \in {0, 1} }

\* BacktestConfig(ichimoku=..., warmup_candles=...)
OtherBacktestConfigs ==
    { [ ichimoku |-> ic, detector |-> dc, warmup_candles |-> w,
        buffer_size |-> LIVE_MAX_SIZE ] :
        ic \in OtherIchimokuConfigs, dc \in DetectorConfigs, w \in {-1, 0, 1} }

ConfigInit ==
    /\ BufferInit
    /\ candles \in DriverFrames
    /\ cfg \in OtherBacktestConfigs
    /\ enabled_signals = ALL_SIGNALS
    /\ bt = Idle
    /\ live = Idle
    /\ ComponentsIdle

ConfigSpec == ConfigInit /\ [][DriverNext]_vars

\* ------------------------------------------------------------------------
\* The tick specification: the live pipeline when the scheduler's ticks and
\* the feed's candles do not go in step.  A tick may fire again before the
\* next candle has closed, or only after several have: the job runs a few
\* seconds after each candle close of its timeframe, and a tick that fails
\* or is delayed is not repeated.
\* ------------------------------------------------------------------------

\* ticks of process_candle in one behaviour
MaxTicks == 3

\* BacktestConfig-shaped values that carry the live pipeline's settings
TickConfigs ==
    { [ ichimoku |-> ic, detector |-> dc, warmup_candles |-> w,
        buffer_size |-> LIVE_MAX_SIZE ] :
        ic \in IchimokuConfigs,
        dc \in { c \in DetectorConfigs : ~c.cloud_filter },
        w \in {1, DEFAULT_MIN} }

TickInit ==
    /\ BufferInit
    /\ candles \in DriverFrames
    /\ cfg \in TickConfigs
    /\ enabled_signals = ALL_SIGNALS
    /\ bt = Idle
    /\ live = Idle
    /\ ComponentsIdle

\* a tick at any moment from the last one on
process_candle_any ==
    /\ live.ticks < MaxTicks
    /\ \E closed \in live.i..Len(candles) : process_candle_at(closed)

TickNext ==
    \/ initialise
    \/ process_candle_any

TickSpec == TickInit /\ [][TickNext]_vars

\* ------------------------------------------------------------------------
\* The rerun specification: run() called a second time on the same engine
\* with the same arguments.  bt.runs counts the calls that have returned
\* before the current one and bt.first is the list the first call returned.
\* ------------------------------------------------------------------------

\* a second run() that goes on with the cooldown registry of the first
BacktestEngine_run_again_SharedDetector ==
    /\ bt.pc = "returned"
    /\ bt.runs = 0
    /\ bt' = [Idle EXCEPT !.runs = 1, !.first = bt.signals, !.last = bt.last]
    /\ UNCHANGED <<candles, cfg, enabled_signals, live>>
    /\ UNCHANGED bufvars
    /\ UNCHANGED cmpvars

\* run() is called again after it returned: buffer, indicator, detector and
\* all_signals are locals of the call, so the new call starts from nothing
BacktestEngine_run_again ==
    /\ bt.pc = "returned"
    /\ bt.runs = 0
    /\ bt' = [Idle EXCEPT !.runs = 1, !.first = bt.signals]
    /\ UNCHANGED <<candles, cfg, enabled_signals, live>>
    /\ UNCHANGED bufvars
    /\ UNCHANGED cmpvars

RerunNext ==
    \/ BacktestEngine_run_begin
    \/ BacktestEngine_run_step
    \/ BacktestEngine_run_return
    \/ BacktestEngine_run_again

RerunSpec == DriverInit /\ [][RerunNext]_vars

\* ------------------------------------------------------------------------
\* The uptrend specification: the replay of tests/test_backtest_engine.py,
\* make_candles(n) through an engine configured by fast_config(), on the
\* scale of the driver specification: the IchimokuConfig defaults are
\* 1/2/2/1/1 for 9/26/52/26/26, the warm-up is DEFAULT_MIN + 1 for
\* 100 > 78, and the buffer holds the whole frame as 300 holds the 300
\* bars.  Prices are in units of 0.0001 and row k carries the timestamp k.
\* ------------------------------------------------------------------------

\* make_candles(300): the number of bars of the replay
UptrendBars == 110

\* make_candles: start = 1.1000
UptrendStart == 11000

\* make_candles: high = close + 0.0005, low = close - 0.0005
UptrendSpread == 5

\* make_candles(n): close rises by step = 0.0001 per row, open = close
make_candles(n) ==
    [ k \in 1..n |->
        LET c == UptrendStart + (k - 1)
        IN  [ time |-> k, open |-> c, high |-> c + UptrendSpread,
              low |-> c - UptrendSpread, close |-> c ] ]

\* IchimokuConfig(): the defaults, scaled
DefaultIchimokuConfig ==
    [ tenkan_period |-> 1, kijun_period |-> 2, senkou_b_period |-> 2,
      displacement |-> 1, chikou_shift |-> 1 ]

\* fast_config(): no cooldown, no cloud filter, warm-up and buffer size
fast_config ==
    [ ichimoku |-> DefaultIchimokuConfig,
      detector |-> [ cooldown_minutes |-> 0, cloud_filter |-> FALSE ],
      warmup_candles |-> DEFAULT_MIN + 1, buffer_size |-> UptrendBars ]

UptrendInit ==
    /\ BufferInit
    /\ candles = make_candles(UptrendBars)
    /\ cfg = fast_config
    /\ enabled_signals = ALL_SIGNALS
    /\ bt = Idle
    /\ live = Idle
    /\ ComponentsIdle

UptrendNext ==
    \/ BacktestEngine_run_begin
    \/ BacktestEngine_run_step
    \/ BacktestEngine_run_return

UptrendSpec == UptrendInit /\ [][UptrendNext]_vars

\* ------------------------------------------------------------------------
\* The indicator specification: one IchimokuIndicator and its callers.
\*
\* ichi is a record:
\*   obj     "none" before IchimokuIndicator(...) returned, "built" after
\*   cfg     IchimokuIndicator.cfg
\*   op      the last call made: "calculate" or "latest_values"
\*   df      the frame passed to the last call
\*   frame   what the last calculate() returned
\*   values  what the last latest_values() returned
\*   raised  the exception the last call (or the constructor) raised
\*
\* The callers pass the window as it grows: each call's frame is the frame
\* of the call before, or that frame with one more closed bar.
\* ------------------------------------------------------------------------

\* longest frame passed to calculate / latest_values
MaxRows == 4

\* (low, close, high) of the bars offered
BarShapes == { <<1, 1, 1>>, <<1, 1, 2>>, <<1, 2, 2>>, <<2, 2, 2>> }

\* a bar with open = close
Bar(t, shape) ==
    [ time |-> t, open |-> shape[2], high |-> shape[3], low |-> shape[1],
      close |-> shape[2] ]

\* IchimokuConfig values handed to the constructor: the fields are plain
\* integers, so zero and negative ones are among them
AnyIchimokuConfigs ==
    { [ tenkan_period |-> tp, kijun_period |-> kp, senkou_b_period |-> sp,
        displacement |-> d, chikou_shift |-> cs ] :
        tp \in {0, 1}, kp \in {-1, 2}, sp \in {2, 3},
        d \in {0, 1}, cs \in {0, 1, 2} }

\* the rolling windows of _midpoint are well defined
RollingPeriodsPositive(icfg) ==
    /\ icfg.tenkan_period >= 1
    /\ icfg.kijun_period >= 1
    /\ icfg.senkou_b_period >= 1

IndicatorInit ==
    /\ BufferInit
    /\ DriverIdle
    /\ ComponentsIdle

\* IchimokuIndicator(config): stores the config, whatever it holds
IchimokuIndicator_init(icfg) ==
    /\ ichi.obj = "none"
    /\ ichi' = [ichi EXCEPT !.obj = "built", !.cfg = icfg]
    /\ UNCHANGED <<bufvars, drvvars, det>>

\* IchimokuIndicator.calculate(candles)
IchimokuIndicator_calculate(df) ==
    /\ ichi.obj = "built"
    /\ RollingPeriodsPositive(ichi.cfg)
    /\ ichi' = [ichi EXCEPT !.op = "calculate",
                            !.df = df,
                            !.frame = Calculate(df, ichi.cfg),
                            !.values = <<>>]
    /\ UNCHANGED <<bufvars, drvvars, det>>

\* IchimokuIndicator.latest_values(candles)
IchimokuIndicator_latest_values(df) ==
    /\ ichi.obj = "built"
    /\ RollingPeriodsPositive(ichi.cfg)
    /\ ichi' = [ichi EXCEPT !.op = "latest_values",
                            !.df = df,
                            !.frame = <<>>,
                            !.values = LatestValues(df, ichi.cfg)]
    /\ UNCHANGED <<bufvars, drvvars, det>>

\* the frames a caller may pass next
NextFrames ==
    {ichi.df} \cup
    { Append(ichi.df, Bar(Len(ichi.df) + 1, sh)) :
        sh \in IF Len(ichi.df) < MaxRows THEN BarShapes ELSE {} }

IndicatorNext ==
    \/ \E icfg \in AnyIchimokuConfigs : IchimokuIndicator_init(icfg)
    \/ \E df \in NextFrames : IchimokuIndicator_calculate(df)
    \/ \E df \in NextFrames : IchimokuIndicator_latest_values(df)

IndicatorSpec == IndicatorInit /\ [][IndicatorNext]_vars

\* ------------------------------------------------------------------------
\* The detector specification: one SignalDetector checked on a series of
\* snapshots.
\*
\* det is a record:
\*   obj      "none" before SignalDetector(...) returned, "built" after
\*   cfg      SignalDetector.cfg
\*   enabled  SignalDetector.enabled
\*   last     SignalDetector._last_signal_time
\*   op       the last call made: "check" or "reset_cooldowns"
\*   before   _last_signal_time as it was when the last call started
\*   pair, timeframe  the series the last check() was made for
\*   ind      the indicators argument of the last check()
\*   time     the candle_time argument of the last check()
\*   out      what the last check() returned
\*
\* The snapshots are those latest_values() produces over one series: the
\* prev_ values of each are the current values of the one before, and
\* cloud_top / cloud_bottom are max / min of the two senkou values.  Each
\* call's candle_time is one minute later.
\*
\* DetectorSpec checks one (pair, timeframe) series on all the positions.
\* MultiSeriesSpec has one detector serve several series, as the live
\* bot's does, on a few positions; a call for another series than the call
\* before starts from any previous position.
\* ------------------------------------------------------------------------

\* the last candle_time passed to check()
MaxClock == 3

\* one position of the series: the lines of a row of calculate() with the
\* close
Position(tenkan, kijun, senkou_a, senkou_b, chikou, close) ==
    [ tenkan |-> tenkan, kijun |-> kijun, senkou_a |-> senkou_a,
      senkou_b |-> senkou_b, chikou |-> chikou, close |-> close ]

\* the positions offered: tenkan below, on and above kijun; the close
\* below, on, inside and above the cloud; chikou on three levels; and
\* positions with one line undefined
Currents ==
    { Position(1, 2, 2, 1, 1, 1),
      Position(2, 2, 2, 2, 2, 2),
      Position(2, 1, 1, 1, 2, 2),
      Position(1, 2, 2, 2, 1, 1),
      Position(2, 1, 2, 1, 2, 1),
      Position(1, 2, 2, 1, 3, 2),
      Position(2, 1, 1, 1, 3, 3),
      Position(2, 1, 1, 1, NaN, 2),
      Position(2, 1, 1, NaN, 2, 2),
      Position(NaN, 1, 1, 1, 2, 2) }

\* the dict latest_values() builds from the rows cur and prv
Snapshot(prv, cur) ==
    [ tenkan            |-> cur.tenkan,
      kijun             |-> cur.kijun,
      senkou_a          |-> cur.senkou_a,
      senkou_b          |-> cur.senkou_b,
      chikou            |-> cur.chikou,
      close             |-> cur.close,
      cloud_top         |-> PyMax(cur.senkou_a, cur.senkou_b),
      cloud_bottom      |-> PyMin(cur.senkou_a, cur.senkou_b),
      prev_tenkan       |-> prv.tenkan,
      prev_kijun        |-> prv.kijun,
      prev_senkou_a     |-> prv.senkou_a,
      prev_senkou_b     |-> prv.senkou_b,
      prev_chikou       |-> prv.chikou,
      prev_close        |-> prv.close,
      prev_cloud_top    |-> PyMax(prv.senkou_a, prv.senkou_b),
      prev_cloud_bottom |-> PyMin(prv.senkou_a, prv.senkou_b) ]

\* the current row of a snapshot
CurrentOf(ind) ==
    [ tenkan |-> ind.tenkan, kijun |-> ind.kijun, senkou_a |-> ind.senkou_a,
      senkou_b |-> ind.senkou_b, chikou |-> ind.chikou, close |-> ind.close ]

DetectorInit ==
    /\ BufferInit
    /\ DriverIdle
    /\ ComponentsIdle

\* enabled_signals = None: the argument left out
None == {"None"}

\* the enabled_signals arguments of the constructor: None or a whitelist
EnabledArgs == { None, {"tk_cross_up", "kumo_breakout_up"} }

\* a constructor that ignores its whitelist
SignalDetector_init_NoWhitelist(dcfg, en) ==
    /\ det.obj = "none"
    /\ det' = [det EXCEPT !.obj = "built", !.cfg = dcfg, !.given = en,
                          !.enabled = ALL_SIGNALS]
    /\ UNCHANGED <<bufvars, drvvars, ichi>>

\* SignalDetector(config, enabled_signals): the enabled set is the argument,
\* or ALL_SIGNALS when the argument is None
SignalDetector_init(dcfg, en) ==
    /\ det.obj = "none"
    /\ det' = [det EXCEPT !.obj = "built", !.cfg = dcfg, !.given = en,
                          !.enabled = IF en = None THEN ALL_SIGNALS ELSE en]
    /\ UNCHANGED <<bufvars, drvvars, ichi>>

\* SignalDetector.check(pair, timeframe, indicators, candle_time)
SignalDetector_check_at(sr, prv, cur, candle_time) ==
    /\ det.obj = "built"
    /\ LET indicators  == Snapshot(prv, cur)
           res == Check(det.last, det.enabled, det.cfg, sr[1], sr[2],
                        indicators, candle_time)
       IN  det' = [det EXCEPT !.op = "check",
                              !.before = det.last,
                              !.pair = sr[1],
                              !.timeframe = sr[2],
                              !.ind = indicators,
                              !.time = candle_time,
                              !.out = res.signals,
                              !.last = res.last]
    /\ UNCHANGED <<bufvars, drvvars, ichi>>

\* check() on the snapshot of the next candle of the series, one minute
\* after the candle of the call before
SignalDetector_check(sr, prv, cur) ==
    /\ det.time < MaxClock
    /\ SignalDetector_check_at(sr, prv, cur, det.time + 1)

\* a reset_cooldowns() that leaves the registry as it is
SignalDetector_reset_cooldowns_Keep ==
    /\ det.obj = "built"
    /\ det.op = "check"
    /\ det' = [det EXCEPT !.op = "reset_cooldowns",
                          !.before = det.last,
                          !.dropped = det.last,
                          !.out = <<>>]
    /\ UNCHANGED <<bufvars, drvvars, ichi>>

\* SignalDetector.reset_cooldowns(): _last_signal_time.clear(); `dropped`
\* remembers the entries the last reset cleared
SignalDetector_reset_cooldowns ==
    /\ det.obj = "built"
    /\ det.op = "check"
    /\ det' = [det EXCEPT !.op = "reset_cooldowns",
                          !.before = det.last,
                          !.dropped = det.last,
                          !.last = <<>>,
                          !.out = <<>>]
    /\ UNCHANGED <<bufvars, drvvars, ichi>>

\* the position before the next one of series sr: the current position of
\* the snapshot before if that was of the same series, else any
PrevPositions(sr) ==
    IF det.ind # <<>> /\ <<det.pair, det.timeframe>> = sr
    THEN {CurrentOf(det.ind)} ELSE Currents

DetectorNext ==
    \/ \E dcfg \in DetectorConfigs, en \in EnabledArgs :
          SignalDetector_init(dcfg, en)
    \/ \E prv \in PrevPositions(<<PAIR, TIMEFRAME>>), cur \in Currents :
          SignalDetector_check(<<PAIR, TIMEFRAME>>, prv, cur)
    \/ SignalDetector_reset_cooldowns

DetectorSpec == DetectorInit /\ [][DetectorNext]_vars

\* the (pair, timeframe) series one shared detector is called for
Series == { <<"EURUSD", "M1">>, <<"GBPUSD", "M1">>, <<"EURUSD", "H1">> }

\* the positions offered to the shared detector: below the cloud with
\* tenkan under kijun, above it with tenkan over kijun, and under a flat
\* cloud
FewPositions ==
    { Position(1, 2, 2, 1, 1, 1),
      Position(2, 1, 1, 1, 2, 2),
      Position(1, 2, 2, 2, 1, 1) }

\* DetectorConfig values of the shared detector
SharedDetectorConfigs ==
    { [ cooldown_minutes |-> cd, cloud_filter |-> FALSE ] : cd \in {0, 3} }

MultiSeriesNext ==
    \/ \E dcfg \in SharedDetectorConfigs : SignalDetector_init(dcfg, None)
    \/ \E sr \in Series :
          \E prv \in PrevPositions(sr) \cap FewPositions, cur \in FewPositions :
             SignalDetector_check(sr, prv, cur)
    \/ SignalDetector_reset_cooldowns

MultiSeriesSpec == DetectorInit /\ [][MultiSeriesNext]_vars

\* the candle_time values a caller may pass when nothing orders its calls
CallTimes == 1..MaxClock

\* one detector called for one series with candle times in any order: each
\* check() takes any snapshot and any time, earlier or later than the one
\* before
AnyOrderNext ==
    \/ \E dcfg \in DetectorConfigs : SignalDetector_init(dcfg, None)
    \/ \E prv \in FewPositions, cur \in FewPositions, t \in CallTimes :
          SignalDetector_check_at(<<PAIR, TIMEFRAME>>, prv, cur, t)

AnyOrderSpec == DetectorInit /\ [][AnyOrderNext]_vars

\* ------------------------------------------------------------------------
\* Claims about the rolling window (checked under Spec)
\* ------------------------------------------------------------------------

\* how often row r occurs in frame df
Count(r, df) == Cardinality({ k \in 1..Len(df) : df[k] = r })

RowsOf(df) == { df[k] : k \in 1..Len(df) }

\* the last call was an append() that returned normally
AppendReturned == op = "append" /\ raised = "none"

\* the rows of the last call's frame that a window holding `prev` accepts:
\* complete rows whose timestamp the window did not hold yet
NewRows == { k \in 1..Len(arg) : ~HasNaNField(arg[k]) /\ arg[k].time \notin IndexOf(prev) }

\* C3: after seed and any appends (also of rows older than the newest stored
\* row) the window is in ascending timestamp order.
C3_SortedAfterAppend ==
    seeded => \A i, j \in 1..Len(data) : i < j => data[i].time <= data[j].time

\* C4: after any seed or append, also of a frame that holds one timestamp
\* twice, no two rows of the window share a timestamp.
C4_NoDuplicateTimestamps ==
    seeded => \A i, j \in 1..Len(data) : i # j => data[i].time # data[j].time

\* C5: after any sequence of seed and append calls the window holds at most
\* max_size rows.
C5_LengthWithinCapacity ==
    seeded => Len(data) <= max_size

\* C5 witness: an append whose accepted rows overflowed the capacity
C5_Witness ==
    /\ AppendReturned
    /\ Len(prev) + Cardinality(NewRows) > max_size
    /\ Len(data) = max_size
    /\ max_size > 0

\* C6: after append the window is the max_size newest rows (by timestamp)
\* of the previous window plus the accepted rows: every row it holds comes
\* from that pool, it holds as many as the capacity allows, and a row that
\* was trimmed is no newer than any row that was kept.
C6_TrimDropsOldest ==
    AppendReturned =>
        LET pool == prev \o SortIndex([k \in 1..Cardinality(NewRows) |->
                        arg[CHOOSE i \in NewRows :
                              Cardinality({ j \in NewRows : j < i }) = k - 1]])
        IN  /\ Len(data) = Min(max_size, Len(pool))
            /\ \A r \in RowsOf(data) : Count(r, data) <= Count(r, pool)
            /\ \A r \in RowsOf(pool) : \A q \in RowsOf(data) :
                   Count(r, data) < Count(r, pool) => r.time <= q.time

\* C7: appending the same frame twice in a row gives the window that
\* appending it once gave.
C7_AppendIdempotent ==
    [][(AppendReturned /\ op' = "append" /\ arg' = arg) => data' = data]_vars

\* C8: once seeded, is_ready holds exactly when the window holds at least
\* min_candles rows, and an append never turns it from true to false.
C8_ReadyMonotonic ==
    /\ [](seeded => (is_ready <=> Len(data) >= min_candles))
    /\ [][(seeded /\ is_ready /\ op' = "append") => is_ready']_vars

\* C8 witness: an append that accepted rows into a full, ready window
C8_Witness ==
    /\ AppendReturned
    /\ min_candles > 0
    /\ Len(prev) >= min_candles
    /\ Len(prev) = max_size
    /\ NewRows # {}
    /\ is_ready

\* C9: append() and the data property on a window that was never seeded
\* raise RuntimeError and leave it unseeded: size 0, not ready, no latest time.
C9_UnseededCallsFail ==
    [][(obj = "built" /\ ~seeded /\ op' \in {"append", "data"}) =>
          /\ raised' = "RuntimeError"
          /\ ~seeded'
          /\ size' = 0
          /\ ~is_ready'
          /\ latest_time' = NoTime]_vars

\* C9 witness: an append of a non-empty frame on an unseeded window failed
C9_Witness ==
    /\ op = "append"
    /\ raised = "RuntimeError"
    /\ arg # <<>>
    /\ ~seeded

\* C10: the constructor raises ValueError when max_size < min_candles, and
\* accepts max_size = min_candles, giving an empty window that is not ready.
C10_ConstructorCheck ==
    op = "construct" =>
        /\ max_size < min_candles => (raised = "ValueError" /\ obj = "none")
        /\ max_size = min_candles =>
               (raised = "none" /\ obj = "built" /\ size = 0 /\ ~is_ready)

\* C10 witness: a window built with max_size = min_candles
C10_Witness ==
    /\ op = "construct"
    /\ max_size = min_candles
    /\ obj = "built"


\* ------------------------------------------------------------------------
\* Claims about re-delivered bars (checked under RedeliverySpec)
\* ------------------------------------------------------------------------

\* the rows of df that carry timestamp T, in their order
RowsAt(df, T) == SelectSeq(df, LAMBDA r : r.time = T)

\* s is what is left of t after dropping rows from its front
IsSuffix(s, t) ==
    /\ Len(s) <= Len(t)
    /\ s = SubSeq(t, Len(t) - Len(s) + 1, Len(t))

\* C29: an append() never changes the values stored for a timestamp the
\* window already holds: the rows of that timestamp after the call are
\* rows it held before, with the values they had (all of them, or those
\* the trim left), and a row of the frame that carries a stored timestamp
\* with other values is not in the window afterwards.
C29_StoredBarsImmutable ==
    AppendReturned =>
        /\ \A T \in IndexOf(prev) : IsSuffix(RowsAt(data, T), RowsAt(prev, T))
        /\ \A k \in 1..Len(arg) :
              (arg[k].time \in IndexOf(prev) /\ arg[k] \notin RowsOf(prev)) =>
                  arg[k] \notin RowsOf(data)

\* C29 witness: an append() brought a stored timestamp again at another
\* price together with a new bar; the new bar went in and the stored bar is
\* still there at its old price
C29_Witness ==
    /\ AppendReturned
    /\ data # prev
    /\ \E k \in 1..Len(arg), j \in 1..Len(prev) :
          /\ arg[k].time = prev[j].time
          /\ arg[k].close # prev[j].close
          /\ prev[j] \in RowsOf(data)
          /\ arg[k] \notin RowsOf(data)

\* ------------------------------------------------------------------------
\* Claims about the replay and the live tick (checked under DriverSpec)
\* ------------------------------------------------------------------------

\* the replay has evaluated the rules for row bt.i in its last iteration
ReplayEvaluated == bt.pc \in {"loop", "returned"} /\ bt.evaluated

\* C1: at every rule evaluation of run() for input row i the window holds
\* only rows at input positions <= i, none from i+1 onward, and its newest
\* row is row i.
C1_NoLookAhead ==
    ReplayEvaluated =>
        /\ \A k \in 1..Len(bt.data) :
              /\ \E j \in 1..bt.i : candles[j] = bt.data[k]
              /\ \A j \in (bt.i + 1)..Len(candles) : candles[j] # bt.data[k]
        /\ bt.data # <<>>
        /\ bt.data[Len(bt.data)] = candles[bt.i]

\* C1 witness: an evaluation on a trimmed window while later rows remain
C1_Witness ==
    /\ ReplayEvaluated
    /\ bt.i > cfg.buffer_size
    /\ bt.i < Len(candles)
    /\ Len(bt.data) = cfg.buffer_size

\* the replay and the live bot have consumed the same rows
SamePosition ==
    /\ bt.pc \in {"loop", "returned"}
    /\ live.pc = "running"
    /\ live.i = bt.i

\* the live detector has no whitelist: equal detector configuration means
\* run() got enabled_signals = None
SameDetector == enabled_signals = ALL_SIGNALS

\* C2 as stated: for the same rows and equal indicator/detector
\* configuration the live ticks emit the signals run() collects.
C2_LiveEqualsReplay ==
    (SamePosition /\ SameDetector) => live.signals = bt.signals

\* C2 restricted to a replay buffer_size equal to the live max_size: the
\* two pipelines then emit the same signals.
C2_LiveEqualsReplaySameCapacity ==
    (SamePosition /\ SameDetector /\ cfg.buffer_size = LIVE_MAX_SIZE) =>
        live.signals = bt.signals

\* both ran to the end of a frame longer than the window and
\* emitted signals on more than one row
C2_Witness ==
    /\ SamePosition
    /\ SameDetector
    /\ cfg.buffer_size = LIVE_MAX_SIZE
    /\ bt.pc = "returned"
    /\ Len(candles) > LIVE_MAX_SIZE
    /\ \E m, n \in 1..Len(bt.signals) : bt.signals[m].timestamp # bt.signals[n].timestamp
    /\ live.signals = bt.signals

\* run() is in its loop or has returned
ReplayStarted == bt.pc \in {"loop", "returned"}

\* the input position (counted from 1) of the first replayed row
FirstReplayed == cfg.warmup_candles + 1

\* C25: every signal a replay over a time-ordered input has collected
\* carries the timestamp of an input row at position warmup_candles or
\* later (counted from 0), so none is earlier than the row at position
\* warmup_candles.
C25_NoSignalBeforeWarmup ==
    ReplayStarted =>
        \A n \in 1..Len(bt.signals) :
            /\ bt.signals[n].timestamp >= candles[FirstReplayed].time
            /\ \E j \in FirstReplayed..Len(candles) :
                  candles[j].time = bt.signals[n].timestamp

\* C25 witness: the replay emitted a signal on the first replayed row and
\* another one on a later row
C25_Witness ==
    /\ ReplayStarted
    /\ cfg.warmup_candles > 1
    /\ \E m, n \in 1..Len(bt.signals) :
          /\ bt.signals[m].timestamp = candles[FirstReplayed].time
          /\ bt.signals[n].timestamp > candles[FirstReplayed].time

\* run() has done no window, indicator or rule work and collected nothing
NoReplayWork ==
    /\ ~bt.seeded
    /\ bt.data = <<>>
    /\ ~bt.evaluated
    /\ bt.last = <<>>
    /\ bt.signals = <<>>

\* C26: once called on a frame of fewer than warmup_candles + 1 rows, run()
\* has raised ValueError without seeding a window, evaluating a rule or
\* collecting a signal; called on exactly warmup_candles + 1 rows it does
\* not raise: it replays the one row and returns its list.
C26_LengthCheck ==
    bt.pc # "idle" =>
        /\ Len(candles) < cfg.warmup_candles + 1 =>
              /\ bt.pc = "raised"
              /\ bt.raised = "ValueError"
              /\ NoReplayWork
        /\ Len(candles) = cfg.warmup_candles + 1 =>
              /\ bt.pc \in {"loop", "returned"}
              /\ bt.raised = "none"
              /\ bt.seeded
              /\ bt.pc = "returned" => bt.i = Len(candles)

\* C26 witness: run() raised on a frame of exactly warmup_candles rows
C26_Witness ==
    /\ bt.pc = "raised"
    /\ Len(candles) = cfg.warmup_candles

\* run() returned from a frame of exactly warmup_candles + 1 rows, its one
\* replayed row evaluated
MinimumViableRun ==
    /\ bt.pc = "returned"
    /\ Len(candles) = cfg.warmup_candles + 1
    /\ bt.evaluated

\* the place of a kind in the rule table
TableRank(K) ==
    CASE K = "tk_cross_up"        -> 1
      [] K = "tk_cross_down"      -> 2
      [] K = "kumo_breakout_up"   -> 3
      [] K = "kumo_breakout_down" -> 4
      [] K = "chikou_cross_up"    -> 5
      [] K = "chikou_cross_down"  -> 6

\* the signals of `out` are in table order, no kind twice
TableOrdered(out) ==
    \A m, n \in 1..Len(out) :
        m < n => TableRank(out[m].signal_type) < TableRank(out[n].signal_type)

\* the signals the live bot handed to its notifier last, as many as the
\* last tick's check() returned
LastHanded ==
    SubSeq(live.signals, Len(live.signals) - Len(live.out) + 1, Len(live.signals))

\* C31: the signals one check() returns are in the order of the rule table
\* (tk up, tk down, kumo up, kumo down, chikou up, chikou down), at most
\* one per kind, and a live tick hands exactly these signals to the
\* notifier, one after the other in that order.
C31_TableOrder ==
    /\ TableOrdered(live.out)
    /\ TableOrdered(bt.out)
    /\ Len(live.out) <= Len(live.signals)
    /\ LastHanded = live.out

\* C31 witness: one live tick handed two signals to the notifier, the one
\* earlier in the table first
C31_Witness ==
    \E m, n \in 1..Len(live.signals) :
        /\ n = m + 1
        /\ live.signals[m].timestamp = live.signals[n].timestamp
        /\ TableRank(live.signals[m].signal_type)
              < TableRank(live.signals[n].signal_type)

\* C35: an error raised inside a replay step or a live tick reaches the
\* caller: once the indicator has raised, run() has raised that error and
\* the tick has ended with it; neither carries on with the error caught.
C35_ErrorsSurface ==
    /\ bt.caught # "none" => (bt.pc = "raised" /\ bt.raised = bt.caught)
    /\ live.caught # "none" => (live.pc = "raised" /\ live.raised = live.caught)

\* the replay has appended at least one row after the seed
ReplayStepped == ReplayStarted /\ bt.i > cfg.warmup_candles

\* C33: in a replay the rules are evaluated for an appended row iff the
\* window is ready after that append, so with a warm-up below the minimum
\* nothing is evaluated until the window holds the minimum; after the seed
\* alone nothing has been evaluated or collected.
C33_EvaluatedIffReady ==
    /\ ReplayStepped => (bt.evaluated <=> IsReady(bt.seeded, bt.data, DEFAULT_MIN))
    /\ (ReplayStarted /\ ~ReplayStepped) => (~bt.evaluated /\ bt.signals = <<>>)

\* the configuration looks ahead for the chikou line
ChikouShifted == cfg.ichimoku.chikou_shift >= 1

\* the snapshot of a pipeline's window has no current chikou value
ChikouUndefined(p) ==
    (p.seeded /\ ~RollingRaises(cfg.ichimoku)) =>
        LatestValues(p.data, cfg.ichimoku).chikou = NaN

UnshiftedEmits ==
    Check(<<>>, enabled_signals, cfg.detector, PAIR, TIMEFRAME,
          LatestValues(bt.data, [cfg.ichimoku EXCEPT !.chikou_shift = 0]),
          LatestTime(TRUE, bt.data)).signals

ReplayRunning == bt.pc \in {"loop", "returned"}

\* C34: run() rejects a warm-up count that is not strictly greater than
\* zero: once run() has been called with warmup_candles <= 0 it has raised,
\* and no replay was started.
C34_WarmupValidated ==
    (bt.pc # "idle" /\ cfg.warmup_candles <= 0) =>
        (bt.pc = "raised" /\ ~bt.seeded)

\* minimum_history of a configuration
MinimumHistory(icfg) == icfg.senkou_b_period + icfg.displacement

\* C36: the readiness threshold of the window that the replay builds and of
\* the window that the live pipeline builds is senkou_b_period +
\* displacement of the indicator configuration in use.
C36_ThresholdFromConfig ==
    /\ ReplayRunning => bt.min = MinimumHistory(cfg.ichimoku)
    /\ live.pc = "running" => live.min = MinimumHistory(cfg.ichimoku)

\* ------------------------------------------------------------------------
\* Claims about the indicator (checked under IndicatorSpec)
\* ------------------------------------------------------------------------

\* the last call was calculate()
Calculated == ichi.op = "calculate"

\* a price in the unit of the indicator values
Q(x) == Quarter * x

\* C11: for every position t of the frame calculate() was given,
\* chikou[t] = close[t + chikou_shift] when that position exists in the
\* frame, and chikou[t] is undefined for the last chikou_shift positions.
C11_ChikouIsLaterClose ==
    Calculated =>
        \A t \in 1..Len(ichi.df) :
            IF t + ichi.cfg.chikou_shift <= Len(ichi.df)
            THEN ichi.frame[t].chikou = Q(ichi.df[t + ichi.cfg.chikou_shift].close)
            ELSE ichi.frame[t].chikou = NaN

\* C11 witness: a frame longer than a positive chikou_shift whose closes
\* differ, so that a defined chikou is not the close of its own row
C11_Witness ==
    /\ Calculated
    /\ ichi.cfg.chikou_shift >= 1
    /\ Len(ichi.df) > ichi.cfg.chikou_shift
    /\ ichi.frame[1].chikou # NaN
    /\ ichi.frame[1].chikou # Q(ichi.df[1].close)
    /\ ichi.frame[Len(ichi.df)].chikou = NaN

\* C12: senkou_a[t] = (tenkan[t - displacement] + kijun[t - displacement]) / 2,
\* undefined when no position t - displacement exists or a source value is
\* undefined, and a function of the rows up to t - displacement only.
C12_SenkouAFormula ==
    Calculated =>
        \A t \in 1..Len(ichi.df) :
            LET u == t - ichi.cfg.displacement
            IN  IF u < 1 THEN ichi.frame[t].senkou_a = NaN
                ELSE /\ IF ichi.frame[u].tenkan = NaN \/ ichi.frame[u].kijun = NaN
                        THEN ichi.frame[t].senkou_a = NaN
                        ELSE 2 * ichi.frame[t].senkou_a
                                = ichi.frame[u].tenkan + ichi.frame[u].kijun
                     /\ ichi.frame[t].senkou_a
                          = Calculate(SubSeq(ichi.df, 1, u) \o
                                      [ k \in 1..ichi.cfg.displacement |->
                                          Bar(u + k, <<1, 1, 1>>) ],
                                      ichi.cfg)[t].senkou_a

\* C12 witness: a displaced senkou_a that is defined, with an undefined one
\* before it, over rows that differ after the source position
C12_Witness ==
    /\ Calculated
    /\ ichi.cfg.displacement >= 1
    /\ \E t \in 2..Len(ichi.df) :
          /\ ichi.frame[t].senkou_a # NaN
          /\ ichi.frame[1].senkou_a = NaN
          /\ ichi.df[t].high # ichi.df[t - ichi.cfg.displacement].high
          /\ ichi.frame[t - ichi.cfg.displacement].tenkan
                # ichi.frame[t - ichi.cfg.displacement].kijun

\* the rows of the p bars ending at t inclusive
Trailing(p, t) == (t - p + 1)..t

\* m is (max high + min low) / 2 over the p bars ending at t
IsMidpointOver(m, p, t) ==
    \E hi, lo \in Trailing(p, t) :
        /\ \A k \in Trailing(p, t) :
              ichi.df[k].high <= ichi.df[hi].high /\ ichi.df[lo].low <= ichi.df[k].low
        /\ 2 * m = Q(ichi.df[hi].high) + Q(ichi.df[lo].low)

\* the pre-shift midpoint line of period p is right at position t
MidpointRight(m, p, t) == IF t < p THEN m = NaN ELSE IsMidpointOver(m, p, t)

\* C13: for each period p of tenkan, kijun and senkou_b the pre-shift
\* midpoint line is (max high + min low) / 2 over the p bars ending at t
\* inclusive, and undefined where fewer than p bars end at t.
C13_MidpointLines ==
    Calculated =>
        \A t \in 1..Len(ichi.df) :
            /\ MidpointRight(ichi.frame[t].tenkan, ichi.cfg.tenkan_period, t)
            /\ MidpointRight(ichi.frame[t].kijun, ichi.cfg.kijun_period, t)
            /\ (t + ichi.cfg.displacement <= Len(ichi.df)) =>
                  MidpointRight(ichi.frame[t + ichi.cfg.displacement].senkou_b,
                                ichi.cfg.senkou_b_period, t)

\* C13 witness: a kijun line undefined on its first row and defined on a
\* later one, where the highest high and the lowest low are on different
\* rows of the trailing bars
C13_Witness ==
    /\ Calculated
    /\ ichi.cfg.kijun_period = 2
    /\ Len(ichi.df) >= 3
    /\ ichi.frame[1].kijun = NaN
    /\ 2 * ichi.frame[3].kijun = Q(1) + Q(2)
    /\ ichi.df[2].high = 2 /\ ichi.df[2].low = 2
    /\ ichi.df[3].high = 1 /\ ichi.df[3].low = 1
    /\ ichi.frame[3].senkou_b # NaN

\* the last call was latest_values()
LatestValued == ichi.op = "latest_values"

\* top and bottom are the max and min of a and b when both are defined, and
\* undefined when either is not
CloudRight(top, bottom, a, b) ==
    IF a # NaN /\ b # NaN
    THEN /\ top = (IF a >= b THEN a ELSE b)
         /\ bottom = (IF a <= b THEN a ELSE b)
    ELSE top = NaN /\ bottom = NaN

\* C14: in the snapshot, cloud_top and cloud_bottom, current and previous,
\* are the max and min of senkou_a and senkou_b at that position when both
\* are defined, and undefined whenever either of the two is undefined.
C14_CloudTopBottom ==
    LatestValued =>
        /\ CloudRight(ichi.values.cloud_top, ichi.values.cloud_bottom,
                      ichi.values.senkou_a, ichi.values.senkou_b)
        /\ CloudRight(ichi.values.prev_cloud_top, ichi.values.prev_cloud_bottom,
                      ichi.values.prev_senkou_a, ichi.values.prev_senkou_b)

\* the sixteen keys of a snapshot
SnapshotKeys ==
    { "tenkan", "kijun", "senkou_a", "senkou_b", "chikou", "close",
      "cloud_top", "cloud_bottom", "prev_tenkan", "prev_kijun",
      "prev_senkou_a", "prev_senkou_b", "prev_chikou", "prev_close",
      "prev_cloud_top", "prev_cloud_bottom" }

AllPeriodsPositive(icfg) ==
    /\ icfg.tenkan_period >= 1
    /\ icfg.kijun_period >= 1
    /\ icfg.senkou_b_period >= 1
    /\ icfg.displacement >= 1
    /\ icfg.chikou_shift >= 1

\* C16: constructing the indicator with any of tenkan_period, kijun_period,
\* senkou_b_period, displacement, chikou_shift <= 0 fails at construction,
\* so no constructed indicator holds such a config.
C16_InvalidConfigRejected ==
    ichi.obj = "built" => AllPeriodsPositive(ichi.cfg)

\* ------------------------------------------------------------------------
\* Claims about the detector (checked under DetectorSpec)
\* ------------------------------------------------------------------------

\* the last call was check()
Checked == det.op = "check"

\* the signals `out` holds one of kind K
EmittedIn(out, K) == \E n \in 1..Len(out) : out[n].signal_type = K

\* the last check() emitted kind K
Emitted(K) == EmittedIn(det.out, K)

\* kind K was on cooldown when the last check() started
CooldownActive(K) ==
    /\ <<det.pair, det.timeframe, K>> \in DOMAIN det.before
    /\ det.time - det.before[<<det.pair, det.timeframe, K>>] < det.cfg.cooldown_minutes

\* the condition of kind K in the rule table, on defined values
TableCondition(K, ind) ==
    CASE K = "tk_cross_up" ->
            ind.prev_tenkan <= ind.prev_kijun /\ ind.tenkan > ind.kijun
      [] K = "tk_cross_down" ->
            ind.prev_tenkan >= ind.prev_kijun /\ ind.tenkan < ind.kijun
      [] K = "kumo_breakout_up" ->
            ind.prev_close <= ind.prev_cloud_top /\ ind.close > ind.cloud_top
      [] K = "kumo_breakout_down" ->
            ind.prev_close >= ind.prev_cloud_bottom /\ ind.close < ind.cloud_bottom
      [] K = "chikou_cross_up" ->
            ind.prev_chikou <= ind.prev_close /\ ind.chikou > ind.prev_close
      [] K = "chikou_cross_down" ->
            ind.prev_chikou >= ind.prev_close /\ ind.chikou < ind.prev_close

\* every value of the snapshot is defined
AllDefined(ind) == \A k \in DOMAIN ind : ind[k] # NaN

\* C17: on a snapshot with all values defined, with the cloud filter
\* disabled and no cooldown active for kind K, check() emits K iff K is
\* enabled and K's table condition holds.
C17_RuleTable ==
    (Checked /\ AllDefined(det.ind) /\ ~det.cfg.cloud_filter) =>
        \A K \in ALL_SIGNALS :
            ~CooldownActive(K) =>
                (Emitted(K) <=> (K \in det.enabled /\ TableCondition(K, det.ind)))

\* C17 witness: all six kinds enabled, no filter; the three down kinds are
\* emitted together, the previous values sitting on the boundary
C17_Witness ==
    /\ Checked
    /\ AllDefined(det.ind)
    /\ ~det.cfg.cloud_filter
    /\ det.enabled = ALL_SIGNALS
    /\ det.ind.prev_tenkan = det.ind.prev_kijun
    /\ det.ind.prev_close = det.ind.prev_cloud_bottom
    /\ Emitted("tk_cross_down")
    /\ Emitted("kumo_breakout_down")
    /\ Emitted("chikou_cross_down")
    /\ ~Emitted("tk_cross_up")

\* the kinds the cloud filter does not apply to
IsUnfiltered(sig) ==
    sig.signal_type \in { "kumo_breakout_up", "kumo_breakout_down",
                          "chikou_cross_up", "chikou_cross_down" }

\* what the last check() would have returned with the filter switched
OtherFilterOut ==
    Check(det.before, det.enabled, [det.cfg EXCEPT !.cloud_filter = ~@],
          det.pair, det.timeframe, det.ind, det.time).signals

\* C18: with the cloud filter enabled, tk cross up is emitted only if
\* close >= cloud_top and tk cross down only if close <= cloud_bottom; the
\* kumo breakout and chikou cross signals of a check() are the same with
\* the filter enabled and disabled.
C18_CloudFilter ==
    Checked =>
        /\ (det.cfg.cloud_filter /\ Emitted("tk_cross_up")) =>
              det.ind.close >= det.ind.cloud_top
        /\ (det.cfg.cloud_filter /\ Emitted("tk_cross_down")) =>
              det.ind.close <= det.ind.cloud_bottom
        /\ SelectSeq(det.out, IsUnfiltered) = SelectSeq(OtherFilterOut, IsUnfiltered)

\* C18 witness: the filter suppresses a tk cross up below the cloud top in
\* a check() that emits a chikou cross up
C18_Witness ==
    /\ Checked
    /\ det.cfg.cloud_filter
    /\ det.enabled = ALL_SIGNALS
    /\ AllDefined(det.ind)
    /\ TableCondition("tk_cross_up", det.ind)
    /\ det.ind.close < det.ind.cloud_top
    /\ ~Emitted("tk_cross_up")
    /\ Emitted("chikou_cross_up")
    /\ EmittedIn(OtherFilterOut, "tk_cross_up")

\* the step is a check() on the snapshot that follows the one of the
\* check() before, with cooldown 0
ConsecutiveChecks ==
    /\ det.op = "check"
    /\ det'.op = "check"
    /\ det'.time = det.time + 1
    /\ det'.pair = det.pair
    /\ det'.timeframe = det.timeframe
    /\ det.cfg.cooldown_minutes = 0

\* the two values kind K compares are equal in the previous and in the
\* current sample
OnBoundary(K, ind) ==
    CASE K \in {"tk_cross_up", "tk_cross_down"} ->
            ind.prev_tenkan = ind.prev_kijun /\ ind.tenkan = ind.kijun
      [] K = "kumo_breakout_up" ->
            ind.prev_close = ind.prev_cloud_top /\ ind.close = ind.cloud_top
      [] K = "kumo_breakout_down" ->
            ind.prev_close = ind.prev_cloud_bottom /\ ind.close = ind.cloud_bottom
      [] K \in {"chikou_cross_up", "chikou_cross_down"} ->
            ind.prev_chikou = ind.prev_close /\ ind.chikou = ind.close

\* C19: over consecutive snapshots of one series, with cooldown 0, no kind
\* is emitted on two consecutive samples, and no kind is emitted while the
\* values it compares stay exactly on the boundary.
C19_OncePerCrossing ==
    /\ [][ConsecutiveChecks =>
            \A K \in ALL_SIGNALS : Emitted(K) => ~EmittedIn(det'.out, K)]_vars
    /\ [](Checked /\ AllDefined(det.ind) =>
            \A K \in ALL_SIGNALS : OnBoundary(K, det.ind) => ~Emitted(K))

\* the snapshot keys the rule of kind K reads
Referenced(K) ==
    CASE K = "tk_cross_up" ->
            {"prev_tenkan", "prev_kijun", "tenkan", "kijun", "close", "cloud_top"}
      [] K = "tk_cross_down" ->
            {"prev_tenkan", "prev_kijun", "tenkan", "kijun", "close", "cloud_bottom"}
      [] K = "kumo_breakout_up" ->
            {"prev_close", "prev_cloud_top", "close", "cloud_top"}
      [] K = "kumo_breakout_down" ->
            {"prev_close", "prev_cloud_bottom", "close", "cloud_bottom"}
      [] K \in {"chikou_cross_up", "chikou_cross_down"} ->
            {"prev_chikou", "prev_close", "chikou"}

\* a value an enabled rule reads is undefined
EnabledRuleReadsNaN ==
    \E K \in det.enabled : \E k \in Referenced(K) : det.ind[k] = NaN

\* C20: if any snapshot value referenced by an enabled rule is undefined,
\* check() returns no signals at all and leaves the cooldown registry as
\* it was.
C20_UndefinedSkipsAll ==
    (Checked /\ EnabledRuleReadsNaN) =>
        /\ det.out = <<>>
        /\ det.last = det.before

\* C20 witness: chikou is undefined while the tk cross up condition holds
\* on defined values, both kinds enabled, and the registry is not empty
C20_Witness ==
    /\ Checked
    /\ det.enabled = ALL_SIGNALS
    /\ det.ind.chikou = NaN
    /\ \A k \in Referenced("tk_cross_up") : det.ind[k] # NaN
    /\ TableCondition("tk_cross_up", det.ind)
    /\ ~det.cfg.cloud_filter
    /\ ~CooldownActive("tk_cross_up")
    /\ DOMAIN det.before # {}
    /\ det.out = <<>>

\* the registry key of kind K in the last check()
KeyOf(K) == <<det.pair, det.timeframe, K>>

\* the rule of kind K fires on the snapshot of the last check(): its table
\* condition holds and the cloud filter does not suppress it
Fires(K) ==
    /\ TableCondition(K, det.ind)
    /\ (det.cfg.cloud_filter /\ K = "tk_cross_up") =>
          det.ind.close >= det.ind.cloud_top
    /\ (det.cfg.cloud_filter /\ K = "tk_cross_down") =>
          det.ind.close <= det.ind.cloud_bottom

\* C21: after a signal of a key was emitted at time t, a later check() at
\* time t2 in which that rule fires emits the kind iff
\* t2 - t >= cooldown_minutes: suppressed while less has elapsed, emitted
\* when exactly cooldown_minutes have elapsed.
C21_CooldownWindow ==
    (Checked /\ AllDefined(det.ind)) =>
        \A K \in det.enabled :
            (Fires(K) /\ KeyOf(K) \in DOMAIN det.before) =>
                (Emitted(K) <=>
                    det.time - det.before[KeyOf(K)] >= det.cfg.cooldown_minutes)

\* C21 witness: with a cooldown of 2 minutes, one kind fires 2 minutes
\* after its last signal and is emitted, another fires 1 minute after its
\* last signal and is suppressed
C21_Witness ==
    /\ Checked
    /\ AllDefined(det.ind)
    /\ det.cfg.cooldown_minutes = 2
    /\ \E A, B \in det.enabled :
          /\ Fires(A) /\ KeyOf(A) \in DOMAIN det.before
          /\ det.time - det.before[KeyOf(A)] = 2
          /\ Emitted(A)
          /\ Fires(B) /\ KeyOf(B) \in DOMAIN det.before
          /\ det.time - det.before[KeyOf(B)] = 1
          /\ ~Emitted(B)

\* the kinds the constructor argument enables: all six for None
EnabledBy(en) == IF en = None THEN ALL_SIGNALS ELSE en

\* C23: check() never emits a signal whose kind is outside the enabled set
\* the detector was constructed with, after any sequence of calls; a
\* detector constructed without an enabled set has all six kinds enabled;
\* the signals a replay run has collected are all of the kinds run() was
\* given.
C23_OnlyEnabledKinds ==
    /\ det.obj = "built" => det.enabled = EnabledBy(det.given)
    /\ (det.obj = "built" /\ det.given = None) => det.enabled = ALL_SIGNALS
    /\ Checked =>
          \A n \in 1..Len(det.out) :
              det.out[n].signal_type \in EnabledBy(det.given)
    /\ \A n \in 1..Len(bt.signals) :
          bt.signals[n].signal_type \in enabled_signals

\* C23 witness: a detector built with a whitelist emits a whitelisted kind
\* in a check() in which a rule outside the whitelist fires too, off cooldown
C23_Witness ==
    /\ Checked
    /\ AllDefined(det.ind)
    /\ det.given # None
    /\ det.out # <<>>
    /\ \E K \in ALL_SIGNALS \ det.given :
          Fires(K) /\ KeyOf(K) \notin DOMAIN det.before

\* what a newly constructed detector with the configuration and the enabled
\* set of `d` returns for the call recorded in `d`
FreshCheck(d) ==
    Check(<<>>, d.enabled, d.cfg, d.pair, d.timeframe, d.ind, d.time)

\* C24: reset_cooldowns() leaves the registry empty, and the check() that
\* follows it emits and records exactly what a newly constructed detector
\* would: every enabled rule that fires is emitted, whatever was emitted
\* before the reset.
C24_ResetClearsRegistry ==
    [][ /\ det'.op = "reset_cooldowns" => det'.last = <<>>
        /\ (det.op = "reset_cooldowns" /\ det'.op = "check") =>
              /\ det'.out = FreshCheck(det').signals
              /\ det'.last = FreshCheck(det').last
              /\ AllDefined(det'.ind) =>
                    \A K \in det'.enabled : Fires(K)' => Emitted(K)' ]_vars

\* C24 witness: a kind emitted less than cooldown_minutes ago is emitted
\* again by the first check() after a reset cleared its entry
C24_Witness ==
    /\ Checked
    /\ AllDefined(det.ind)
    /\ det.before = <<>>
    /\ \E K \in det.enabled :
          /\ KeyOf(K) \in DOMAIN det.dropped
          /\ det.time - det.dropped[KeyOf(K)] < det.cfg.cooldown_minutes
          /\ Fires(K)
          /\ Emitted(K)

\* the registry keys the last check() could have read or written
KeysInPlay ==
    DOMAIN det.before \cup DOMAIN det.last \cup { KeyOf(K) : K \in ALL_SIGNALS }

\* the last check() emitted a signal for registry key k
EmittedKey(k) ==
    \E n \in 1..Len(det.out) :
        <<det.out[n].pair, det.out[n].timeframe, det.out[n].signal_type>> = k

\* C30: check() sets the registry entry of exactly the keys it emits a
\* signal for, to the time of the call; the entry of every other key (rule
\* not fired, kind disabled, undefined values, firing suppressed by the
\* cooldown) is as it was before the call, present or absent.
C30_RegistryFrame ==
    Checked =>
        \A k \in KeysInPlay :
            IF EmittedKey(k)
            THEN k \in DOMAIN det.last /\ det.last[k] = det.time
            ELSE /\ (k \in DOMAIN det.last) <=> (k \in DOMAIN det.before)
                 /\ k \in DOMAIN det.before => det.last[k] = det.before[k]

\* C30 witness: in one check() a kind is emitted and recorded at the call
\* time while another kind fires one minute after its last signal, is
\* suppressed, and keeps its earlier entry
C30_Witness ==
    /\ Checked
    /\ AllDefined(det.ind)
    /\ det.cfg.cooldown_minutes = 2
    /\ \E A, B \in det.enabled :
          /\ Emitted(A) /\ det.last[KeyOf(A)] = det.time
          /\ Fires(B) /\ ~Emitted(B)
          /\ KeyOf(B) \in DOMAIN det.before
          /\ det.last[KeyOf(B)] = det.time - 1

\* ------------------------------------------------------------------------
\* Claims about one detector serving several series (checked under
\* MultiSeriesSpec)
\* ------------------------------------------------------------------------

\* key k was recorded less than cooldown_minutes before the last check()
RecentlyEmitted(k) ==
    k \in DOMAIN det.before /\ det.time - det.before[k] < det.cfg.cooldown_minutes

\* C22: an emission for one key (pair, timeframe, kind) never suppresses
\* another key: an enabled rule that fires and whose own key is not on
\* cooldown is emitted, whatever the registry holds for other kinds, pairs
\* and timeframes and whatever else the same check() emits.
C22_KeysIndependent ==
    (Checked /\ AllDefined(det.ind)) =>
        \A K \in det.enabled :
            (Fires(K) /\ ~RecentlyEmitted(KeyOf(K))) => Emitted(K)

\* C22 witness: a kind is emitted while the same kind is on cooldown for
\* another pair and for another timeframe of the same pair, together with
\* a second kind in the same check()
C22_Witness ==
    /\ Checked
    /\ det.cfg.cooldown_minutes > 0
    /\ \E K, K2 \in det.enabled :
          /\ K # K2
          /\ Emitted(K) /\ Emitted(K2)
          /\ \E s1, s2 \in Series :
                /\ s1[1] # det.pair
                /\ s2[1] = det.pair /\ s2[2] # det.timeframe
                /\ RecentlyEmitted(<<s1[1], s1[2], K>>)
                /\ RecentlyEmitted(<<s2[1], s2[2], K>>)

\* ------------------------------------------------------------------------
\* Claims about repeated replays (checked under RerunSpec)
\* ------------------------------------------------------------------------

\* the second run() is under way or has returned
SecondRun == bt.runs = 1 /\ bt.pc \in {"loop", "returned"}

\* C27: a second run() with the same configuration over the same frame
\* collects the same signals in the same order as the first: at every
\* point of its loop what it has collected is the beginning of the first
\* list, and the list it returns is the first list.
C27_RunsIdentical ==
    /\ SecondRun =>
          /\ Len(bt.signals) <= Len(bt.first)
          /\ bt.signals = SubSeq(bt.first, 1, Len(bt.signals))
    /\ (SecondRun /\ bt.pc = "returned") => bt.signals = bt.first

\* C27 witness: with a cooldown, the second run returned the list of
\* several signals the first run returned
C27_Witness ==
    /\ bt.runs = 1
    /\ bt.pc = "returned"
    /\ cfg.detector.cooldown_minutes > 0
    /\ Len(bt.first) >= 2
    /\ bt.signals = bt.first

\* ------------------------------------------------------------------------
\* Claims about the uptrend replay (checked under UptrendSpec)
\* ------------------------------------------------------------------------

\* the kinds of the signals the replay has collected
KindsCollected == { bt.signals[n].signal_type : n \in 1..Len(bt.signals) }

DownKinds == {"tk_cross_down", "kumo_breakout_down", "chikou_cross_down"}

\* C28: the replay of the linearly rising bars with the warm-up of
\* fast_config(), no cooldown and no cloud filter returns at least one kumo_breakout_up signal and no
\* signal of a down kind.
C28_UptrendBreaksOut ==
    bt.pc = "returned" =>
        /\ "kumo_breakout_up" \in KindsCollected
        /\ KindsCollected \cap DownKinds = {}

\* ------------------------------------------------------------------------
\* Further claims about one detector serving several series (checked under
\* MultiSeriesSpec)
\* ------------------------------------------------------------------------

UpKinds == {"tk_cross_up", "kumo_breakout_up", "chikou_cross_up"}

\* C32: every signal check() returns has direction BUY iff its kind is an
\* up kind and SELL iff it is a down kind, the current close of the
\* snapshot as price, the candle_time of the call as timestamp, and the pair
\* and timeframe of the call.
C32_SignalFields ==
    Checked =>
        \A n \in 1..Len(det.out) :
            LET sig == det.out[n]
            IN  /\ sig.direction = "BUY" <=> sig.signal_type \in UpKinds
                /\ sig.direction = "SELL" <=> sig.signal_type \in DownKinds
                /\ sig.price = det.ind.close
                /\ sig.timestamp = det.time
                /\ sig.pair = det.pair
                /\ sig.timeframe = det.timeframe

\* C32 witness: a check() for the second pair, after one for the first,
\* returned a SELL signal
C32_Witness ==
    /\ Checked
    /\ det.pair = "GBPUSD"
    /\ det.time > 1
    /\ \E n \in 1..Len(det.out) :
          /\ det.out[n].signal_type \in DownKinds
          /\ det.out[n].direction = "SELL"
          /\ det.out[n].pair = "GBPUSD"

\* ------------------------------------------------------------------------
\* Further claims about the detector (checked under DetectorSpec)
\* ------------------------------------------------------------------------

\* the rule families: the up and the down kind of each
Families ==
    { <<"tk_cross_up", "tk_cross_down">>,
      <<"kumo_breakout_up", "kumo_breakout_down">>,
      <<"chikou_cross_up", "chikou_cross_down">> }

\* the snapshot of the last check() is fully defined and its cloud top is
\* not below its cloud bottom
OrderedCloud ==
    /\ AllDefined(det.ind)
    /\ det.ind.cloud_top >= det.ind.cloud_bottom

\* C39: on a fully defined snapshot whose cloud_top is at least its
\* cloud_bottom, one check() never emits the up and the down kind of the
\* same family, and so returns at most three events.
C39_OneSidePerFamily ==
    (Checked /\ OrderedCloud) =>
        /\ \A f \in Families : ~(Emitted(f[1]) /\ Emitted(f[2]))
        /\ Len(det.out) <= 3

\* C39 witness: one check() returned three events, one of each family
C39_Witness ==
    /\ Checked
    /\ OrderedCloud
    /\ Len(det.out) = 3
    /\ \A f \in Families : Emitted(f[1]) \/ Emitted(f[2])

\* ------------------------------------------------------------------------
\* Claims about calls in any time order (checked under AnyOrderSpec)
\* ------------------------------------------------------------------------

\* the time registered for kind K when the last check() started
RegisteredBefore(K) == det.before[KeyOf(K)]

\* the registry after the last check() holds, for kind K, the time of the
\* call if K was emitted and what it held before if not
RegistryFollowsEmission(K) ==
    IF Emitted(K)
    THEN KeyOf(K) \in DOMAIN det.last /\ det.last[KeyOf(K)] = det.time
    ELSE IF KeyOf(K) \in DOMAIN det.before
    THEN KeyOf(K) \in DOMAIN det.last /\ det.last[KeyOf(K)] = RegisteredBefore(K)
    ELSE KeyOf(K) \notin DOMAIN det.last

\* C38: whatever the order of the call times, with cooldown_minutes = c >= 0
\* the registered time of a key is the time of its latest emitted event, an
\* event of the key is emitted only at a time that is not earlier than the
\* registered one and at least c minutes after it, and a call at a time
\* earlier than the registered one emits nothing for the key, also for c = 0.
C38_EmissionTimesOrdered ==
    Checked =>
        \A K \in ALL_SIGNALS :
            /\ RegistryFollowsEmission(K)
            /\ (KeyOf(K) \in DOMAIN det.before /\ Emitted(K)) =>
                  /\ det.time >= RegisteredBefore(K)
                  /\ det.time - RegisteredBefore(K) >= det.cfg.cooldown_minutes
            /\ (KeyOf(K) \in DOMAIN det.before /\ det.time < RegisteredBefore(K)) =>
                  ~Emitted(K)

\* C38 witness: without cooldown, a rule fired in a call made for a time
\* before the time registered for its key and was not emitted, while
\* another kind was
C38_Witness ==
    /\ Checked
    /\ det.cfg.cooldown_minutes = 0
    /\ AllDefined(det.ind)
    /\ \E K \in ALL_SIGNALS :
          /\ Fires(K)
          /\ KeyOf(K) \in DOMAIN det.before
          /\ det.time < RegisteredBefore(K)
          /\ ~Emitted(K)
    /\ det.out # <<>>

\* ------------------------------------------------------------------------
\* Claims about ticks out of step with the feed (checked under TickSpec)
\* ------------------------------------------------------------------------

\* the step is a tick of process_candle that leaves a ready window
ReadyTick ==
    /\ live'.ticks = live.ticks + 1
    /\ IsReady(live'.seeded, live'.data, live'.min)

\* the signals the step handed to the notifier
HandedInStep ==
    { live'.signals[n] : n \in (Len(live.signals) + 1)..Len(live'.signals) }

\* C40: a tick of process_candle on a ready window calls check() exactly
\* once, with the snapshot of the window's newest bar and that bar's
\* timestamp, whether the append of the tick added no bar, one or several:
\* every signal of the tick carries the newest bar's time, and a tick that
\* adds no bar after an evaluation passes the same snapshot and the same
\* time again.
C40_OneEvaluationPerTick ==
    [][ ReadyTick =>
          /\ live'.checks = live.checks + 1
          /\ live'.at = LatestTime(TRUE, live'.data)
          /\ live'.ind = LatestValues(live'.data, cfg.ichimoku)
          /\ \A sig \in HandedInStep : sig.timestamp = live'.at
          /\ (live'.added = 0 /\ live.checks > 0) =>
                (live'.at = live.at /\ live'.ind = live.ind) ]_vars

====
